---- MODULE Spec2Model ----
(***************************************************************************)
(* The per-pull-request analysis pipeline of golangci-worker:              *)
(* the queue handler analyzeWrappedV2 -> analyzeLogged -> analyze ->       *)
(* githubGoPR.Process -> processWithGuaranteedGithubStatus -> work.        *)
(*                                                                         *)
(* The repository holds two drivers: app/analyze/processors/               *)
(* github_go_pr.go (with the two provisioner strategies) and the driver of *)
(* unnamed/part_000 (in-process provisioner only).  The variable `driver`  *)
(* says which one runs; `newWorkspaceInstaller` says whether the           *)
(* goenvbuild provisioner (Go2) was installed by newGithubGoPR.            *)
(*                                                                         *)
(* Every call to an external collaborator (hosting adapter, state store,   *)
(* provisioner, analyzer, reviewer, executor) is one step and appends one  *)
(* event to `log`, so that the order of the calls can be stated.           *)
(*                                                                         *)
(* The queue delivers one of the two registered tasks (`task`).  The       *)
(* executors (TempDirShell) are kept in the heap `execs`; the              *)
(* specification SpecExec derives executors from one another in any order, *)
(* as Go2.Setup does with WithEnv and WithWorkDir.                         *)
(***************************************************************************)
EXTENDS Integers, Sequences, FiniteSets, TLC

VARIABLES
    environ,                \* os.Environ(): the environment of the worker process
    secrets,                \* the map the last call of buildSecrets returned
    redelivered,            \* the queue has delivered the job again
    g,                      \* fields of githubGoPR: exec, resLog, warnings, timings
    curState,               \* curState of Process: the record GetState returned
    envbuildResult,         \* envbuildResult of Go2.Setup: the decoded answer
    task,                   \* the queue task delivered: "analyze" or "analyzeV2"
    execs,                  \* the executors that exist; execs[1] is the base
    driver,                 \* "github_go_pr" or "part_000"
    newWorkspaceInstaller,  \* g.newWorkspaceInstaller # nil
    pc,                     \* position of the handler
    deadline,               \* the job context's deadline has expired
    pr,                     \* g.pr: the state string of the pull request
    gwClean,                \* defer g.gw.Clean(ctx) has been registered
    res,                    \* res of work(): the analyzer's result, or nil
    werr,                   \* err: the error of the last failed call / of work()
    perr,                   \* the error Process is returning
    panicking,              \* a panic is unwinding Process
    procRet,                \* what Process returned
    handlerRet,             \* what the queue handler returned
    store,                  \* the record the state store holds
    provider,               \* the commit status visible on the provider
    log                     \* the calls made so far, in order

\* What no step of one Process invocation changes.
processVars == <<environ, secrets, redelivered>>

vars == <<processVars, g, curState, envbuildResult, task, execs, driver, newWorkspaceInstaller, pc, deadline, pr, gwClean, res, werr,
          perr, panicking, procRet, handlerRet, store, provider, log>>

-----------------------------------------------------------------------------
(* Bounds *)

MaxIssues == 2

-----------------------------------------------------------------------------
(* Program constants *)

internalError == "Internal error"
statusSentToQueue == "sent_to_queue"
statusProcessing == "processing"
noGoFilesToAnalyzeMessage == "No Go files to analyze"
noGoFilesToAnalyzeErr == "no go files to analyze"

StatusPending == "pending"
StatusSuccess == "success"
StatusFailure == "failure"
StatusError == "error"

TerminalStatuses == {StatusSuccess, StatusFailure, StatusError}

Drivers == {"github_go_pr", "part_000"}

\* The pull-request states the adapter may report.
PRStates == {"open", "closed", "CLOSED", "Merged"}

ToUpper(s) ==
    CASE s \in {"closed", "Closed", "CLOSED"} -> "CLOSED"
      [] s \in {"merged", "Merged", "MERGED"} -> "MERGED"
      [] s \in {"open", "Open", "OPEN"} -> "OPEN"
      [] OTHER -> s

ToLower(s) ==
    CASE s \in {"closed", "Closed", "CLOSED"} -> "closed"
      [] s \in {"merged", "Merged", "MERGED"} -> "merged"
      [] s \in {"open", "Open", "OPEN"} -> "open"
      [] OTHER -> s

\* strings.Contains on a text kept as a sequence of fragments.
Contains(text, sub) == \E i \in 1..Len(text) : text[i] = sub

-----------------------------------------------------------------------------
(* Errors.  kind: "nil"; "Ignored" for an IgnoredError; "Internal" for an   *)
(* errorutils.InternalError; "BadInput" for an errorutils.BadInputError;   *)
(* "transport" for an error of the hosting adapter, classified by          *)
(* github.IsRecoverableError; "plain" for any other error, fmt.Errorf      *)
(* included.                                                               *)

Err(kind, status, desc, rec, priv) ==
    [kind |-> kind, status |-> status, desc |-> desc, rec |-> rec, priv |-> priv]

NoErr == Err("nil", "", "", FALSE, <<>>)

IgnoredError(status, desc, rec) == Err("Ignored", status, desc, rec, <<>>)

InternalError(public, private) == Err("Internal", "", public, FALSE, private)

BadInputError(public) == Err("BadInput", "", public, FALSE, <<>>)

TransportError(rec) == Err("transport", "", "transport failure", rec, <<>>)

Errorf(msg) == Err("plain", "", msg, FALSE, <<>>)

IsRecoverableError(e) == e.kind = "transport" /\ e.rec

-----------------------------------------------------------------------------
(* result.Result: only the number of issues is inspected. *)

NilResult == [nil |-> TRUE, issues |-> 0]

Result(n) == [nil |-> FALSE, issues |-> n]

-----------------------------------------------------------------------------
(* Contexts.  "job" is the context analyze() derives with the 5-minute     *)
(* deadline; "background" is context.Background().                         *)

Cancelled(ctx) == ctx = "job" /\ deadline

\* The HTTP calls carry the context (RequestOptions.Context): on a context
\* that is done they fail; otherwise they succeed or fail.
Answers(ctx) == IF Cancelled(ctx) THEN {FALSE} ELSE BOOLEAN

\* One call to a collaborator, made at position `at` of the handler.
\* result: "ok", "err" or "panic".
Event(op, ctx, result, status, desc, pubErr, issues, url) ==
    [op |-> op, at |-> pc, ctx |-> ctx, cancelled |-> Cancelled(ctx),
     result |-> result, status |-> status, desc |-> desc, pubErr |-> pubErr, issues |-> issues,
     url |-> url, ref |-> "", warnings |-> <<>>]

\* The call carries the public warnings ws.
WithWarnings(e, ws) == [e EXCEPT !.warnings = ws]

\* g.pr.GetHead().GetSHA(): the head commit of the pull request.
HeadSHA == "head-sha-1f3c"

\* The call is about the commit `sha`.
AtCommit(e, sha) == [e EXCEPT !.ref = sha]

\* A call that carries no status: GetPullRequest, Setup, Fetch, Run, ...
Call(op, ctx, result) == Event(op, ctx, result, "", "", "", 0, "")

Result3(ok) == IF ok THEN "ok" ELSE "err"

-----------------------------------------------------------------------------
(* Secrets and redaction *)

GithubAccessToken == "ghs_token_0123"
\* g.analysisGUID: analyzeWrapped passes the empty string.
analysisGUID == IF task = "analyzeV2" THEN "guid-4711" ELSE ""
Gopath == "/tmp/golangci.x/gopath"
hidden == "{hidden}"

\* The texts a collaborator may hand to the driver: a prefix followed by at
\* most one sensitive value.
Prefixes ==
    LET base == {"exit status 1 ", "can't read config in ", "bad credentials "}
    IN  base \cup {"failed to setup workspace: " \o p : p \in base}
             \cup {"failed to setup workspace: " \o w \o p :
                      w \in {"failed to fetch repo: ", "goenvbuild failed: ",
                             "goenvbuild internal error: "},
                      p \in base}
             \cup {"go mod download error: " \o p : p \in base}
             \cup {"Fetch deps: vendor: " \o p : p \in base}
             \cup {"can't run golangci-lint: " \o p : p \in base}

\* strings.Split on a text kept as a sequence of characters.
RECURSIVE Split(_, _)
Split(s, sep) ==
    IF \A i \in DOMAIN s : s[i] # sep
    THEN <<s>>
    ELSE LET i == CHOOSE i \in DOMAIN s : s[i] = sep /\ \A j \in 1..(i - 1) : s[j] # sep
         IN  <<SubSeq(s, 1, i - 1)>> \o Split(SubSeq(s, i + 1, Len(s)), sep)

\* The string of a sequence of characters.
RECURSIVE Join(_)
Join(cs) == IF cs = <<>> THEN "" ELSE cs[1] \o Join(Tail(cs))

\* The least length of an environment value that is hidden.
MinSecretLen == 6

\* The number of parts of a NAME=VALUE entry that buildSecrets accepts.
EnvParts == 2

\* The values of the environment that buildSecrets enters in the map.
EnvSecrets(env) ==
    {Join(Split(env[i], "=")[EnvParts]) :
        i \in {j \in DOMAIN env :
                  /\ Len(Split(env[j], "=")) = EnvParts
                  /\ Len(Split(env[j], "=")[EnvParts]) >= MinSecretLen}}

\* buildSecrets: the map from sensitive strings to their replacement.  The
\* driver of part_000 does not enter the analysis id.  The entries of the
\* environment are written last.
buildSecrets ==
    LET named == {GithubAccessToken}
                   \cup (IF driver = "github_go_pr" THEN {analysisGUID} ELSE {})
                   \cup (IF newWorkspaceInstaller THEN {} ELSE {Gopath})
    IN  [k \in named \cup EnvSecrets(environ)
            |-> IF k \in EnvSecrets(environ) THEN hidden
                ELSE IF k = Gopath THEN "$GOPATH" ELSE hidden]

\* escapeErrorText replaces every occurrence of a key of the map; the
\* empty key is taken to replace nothing.
escapeErrorText(text, secretMap) ==
    LET keys == DOMAIN secretMap \ {""}
    IN  IF \E p \in Prefixes, k \in keys : text = p \o k
        THEN LET pk == CHOOSE pk \in Prefixes \X keys : text = pk[1] \o pk[2]
             IN  pk[1] \o secretMap[pk[2]]
        ELSE text

-----------------------------------------------------------------------------
(* Pure functions of the driver *)

\* getGithubStatusForIssues without the singular form.
getGithubStatusForIssues_Plural(n) ==
    CASE n = 0 -> [status |-> StatusSuccess, desc |-> "No issues found!"]
      [] n = 1 -> [status |-> StatusFailure, desc |-> "1 issues found"]
      [] OTHER -> [status |-> StatusFailure, desc |-> ToString(n) \o " issues found"]

getGithubStatusForIssues(n) ==
    CASE n = 0 -> [status |-> StatusSuccess, desc |-> "No issues found!"]
      [] n = 1 -> [status |-> StatusFailure, desc |-> "1 issue found"]
      [] OTHER -> [status |-> StatusFailure, desc |-> ToString(n) \o " issues found"]

Outcome(status, desc, pubErr, err) ==
    [status |-> status, desc |-> desc, pubErr |-> pubErr, err |-> err]

\* Classify without the branch of the InternalError.
Classify_NoInternalBranch(err, r) ==
    IF err.kind # "nil"
    THEN CASE err.kind = "Ignored" ->
                Outcome(err.status, err.desc, "", IF ~err.rec THEN NoErr ELSE err)
           [] err.kind = "BadInput" ->
                Outcome(StatusError, "can't analyze",
                        escapeErrorText(err.desc, buildSecrets), NoErr)
           [] OTHER ->
                Outcome(StatusError, internalError, internalError, err)
    ELSE LET st == getGithubStatusForIssues(r.issues)
         IN  Outcome(st.status, st.desc, "", err)

\* Classify whose IgnoredError is never returned.
Classify_IgnoredDropped(err, r) ==
    IF err.kind # "nil"
    THEN CASE err.kind = "Ignored" ->
                Outcome(err.status, err.desc, "", NoErr)
           [] err.kind = "Internal" ->
                IF Contains(err.priv, noGoFilesToAnalyzeErr)
                THEN Outcome(StatusSuccess, noGoFilesToAnalyzeMessage,
                             noGoFilesToAnalyzeMessage, NoErr)
                ELSE Outcome(StatusError, err.desc, err.desc, err)
           [] err.kind = "BadInput" ->
                Outcome(StatusError, "can't analyze",
                        escapeErrorText(err.desc, buildSecrets), NoErr)
           [] OTHER ->
                Outcome(StatusError, internalError, internalError, err)
    ELSE LET st == getGithubStatusForIssues(r.issues)
         IN  Outcome(st.status, st.desc, "", err)

\* Classify that does not look for the no-go-files text.
Classify_NoSentinel(err, r) ==
    IF err.kind # "nil"
    THEN CASE err.kind = "Ignored" ->
                Outcome(err.status, err.desc, "", IF ~err.rec THEN NoErr ELSE err)
           [] err.kind = "Internal" ->
                IF FALSE
                THEN Outcome(StatusSuccess, noGoFilesToAnalyzeMessage,
                             noGoFilesToAnalyzeMessage, NoErr)
                ELSE Outcome(StatusError, err.desc, err.desc, err)
           [] err.kind = "BadInput" ->
                Outcome(StatusError, "can't analyze",
                        escapeErrorText(err.desc, buildSecrets), NoErr)
           [] OTHER ->
                Outcome(StatusError, internalError, internalError, err)
    ELSE LET st == getGithubStatusForIssues(r.issues)
         IN  Outcome(st.status, st.desc, "", err)

\* Classify whose InternalError is not returned.
Classify_InternalDropped(err, r) ==
    IF err.kind # "nil"
    THEN CASE err.kind = "Ignored" ->
                Outcome(err.status, err.desc, "", IF ~err.rec THEN NoErr ELSE err)
           [] err.kind = "Internal" ->
                IF Contains(err.priv, noGoFilesToAnalyzeErr)
                THEN Outcome(StatusSuccess, noGoFilesToAnalyzeMessage,
                             noGoFilesToAnalyzeMessage, NoErr)
                ELSE Outcome(StatusError, err.desc, err.desc, NoErr)
           [] err.kind = "BadInput" ->
                Outcome(StatusError, "can't analyze",
                        escapeErrorText(err.desc, buildSecrets), NoErr)
           [] OTHER ->
                Outcome(StatusError, internalError, internalError, err)
    ELSE LET st == getGithubStatusForIssues(r.issues)
         IN  Outcome(st.status, st.desc, "", err)

\* Classify that publishes the text of a BadInputError as it is.
Classify_BadInputUnredacted(err, r) ==
    IF err.kind # "nil"
    THEN CASE err.kind = "Ignored" ->
                Outcome(err.status, err.desc, "", IF ~err.rec THEN NoErr ELSE err)
           [] err.kind = "Internal" ->
                IF Contains(err.priv, noGoFilesToAnalyzeErr)
                THEN Outcome(StatusSuccess, noGoFilesToAnalyzeMessage,
                             noGoFilesToAnalyzeMessage, NoErr)
                ELSE Outcome(StatusError, err.desc, err.desc, err)
           [] err.kind = "BadInput" ->
                Outcome(StatusError, "can't analyze",
                        err.desc, NoErr)
           [] OTHER ->
                Outcome(StatusError, internalError, internalError, err)
    ELSE LET st == getGithubStatusForIssues(r.issues)
         IN  Outcome(st.status, st.desc, "", err)

\* The classification of processWithGuaranteedGithubStatus: the terminal
\* status, its description, the public error and the error to return.
Classify(err, r) ==
    IF err.kind # "nil"
    THEN CASE err.kind = "Ignored" ->
                Outcome(err.status, err.desc, "", IF ~err.rec THEN NoErr ELSE err)
           [] err.kind = "Internal" ->
                IF Contains(err.priv, noGoFilesToAnalyzeErr)
                THEN Outcome(StatusSuccess, noGoFilesToAnalyzeMessage,
                             noGoFilesToAnalyzeMessage, NoErr)
                ELSE Outcome(StatusError, err.desc, err.desc, err)
           [] err.kind = "BadInput" ->
                Outcome(StatusError, "can't analyze",
                        escapeErrorText(err.desc, buildSecrets), NoErr)
           [] OTHER ->
                Outcome(StatusError, internalError, internalError, err)
    ELSE LET st == getGithubStatusForIssues(r.issues)
         IN  Outcome(st.status, st.desc, "", err)

WEB_ROOT == "https://golangci.com"

\* DetailsURL that links every status, pending included.
DetailsURL_Always(status) ==
    IF status = status
    THEN WEB_ROOT \o "/r/github.com/owner/name/pulls/1"
    ELSE ""

\* The details URL setCommitStatus computes.
DetailsURL(status) ==
    IF status = StatusFailure \/ status = StatusSuccess \/ status = StatusError
    THEN WEB_ROOT \o "/r/github.com/owner/name/pulls/1"
    ELSE ""

\* The State record updateAnalysisState puts.
TerminalState(r, status, publicError) ==
    [status |-> "processed/" \o status,
     issues |-> IF r.nil THEN 0 ELSE r.issues,
     pubErr |-> publicError,
     warnings |-> g.warnings,
     timings |-> g.timings,
     createdAt |-> ""]

-----------------------------------------------------------------------------
(* The two writes of the driver, each one call to a collaborator *)

\* updateAnalysisState: one PUT to the state store; a failure is logged.
updateAnalysisState(ctx, r, status, publicError) ==
    \E ok \in Answers(ctx) :
        LET s == TerminalState(r, status, publicError)
        IN  /\ log' = Append(log, WithWarnings(Event("UpdateState", ctx, Result3(ok),
                                                     s.status, "", s.pubErr, s.issues,
                                                     ""),
                                               s.warnings))
            /\ store' = IF ok THEN s ELSE store

\* setCommitStatus: one SetCommitStatus call; a failure is logged.
setCommitStatus(ctx, status, desc) ==
    \E ok \in Answers(ctx) :
        /\ log' = Append(log, AtCommit(Event("SetCommitStatus", ctx, Result3(ok), status,
                                             desc, "", 0, DetailsURL(status)),
                                       HeadSHA))
        /\ provider' = IF ok
                       THEN [status |-> status, desc |-> desc,
                             url |-> DetailsURL(status)]
                       ELSE provider

-----------------------------------------------------------------------------
(* Returns *)

Running == [done |-> FALSE, panic |-> FALSE, err |-> NoErr]

Returned(panic, err) == [done |-> TRUE, panic |-> panic, err |-> err]

\* The errors the hosting adapter may answer with.
TransportErrors == {TransportError(TRUE), TransportError(FALSE)}

\* The texts of a provisioning failure: with and without a sensitive value.
SetupErrTexts == {"exit status 1 ", "bad credentials " \o GithubAccessToken}

\* The text of the error of json.Unmarshal.
UnmarshalErrText == "unexpected end of JSON input"

\* The values a collaborator may panic with.
PanicValues == {"runtime error: nil pointer dereference", noGoFilesToAnalyzeErr}

\* The statuses an IgnoredError of the analyzer may carry.
IgnoredStatuses == {StatusSuccess, StatusError}

\* The errors runner.Run may return.
RunErrors ==
    {IgnoredError(st, "can't build", r) : st \in IgnoredStatuses, r \in BOOLEAN}
    \cup {InternalError("can't run golangci-lint", <<"can't run golangci-lint:", t>>) :
            t \in {"exit status 3", noGoFilesToAnalyzeErr}}
    \cup {InternalError("can't run golangci-lint: bad credentials " \o GithubAccessToken,
                         <<"can't run golangci-lint:", "exit status 1">>),
          BadInputError("can't read config in " \o GithubAccessToken),
          Errorf("context deadline exceeded")}

-----------------------------------------------------------------------------
(* Executors.  A TempDirShell is a working directory and the environment   *)
(* given to the commands it runs.  `execs` is the heap of the executors    *)
(* that exist: WithEnv and WithWorkDir allocate a new one (&eCopy).        *)

MaxExecs == 4

\* The names Go2.Setup sets, and values for them.
EnvKeys == {"REPO", "FORMAT_JSON"}

\* All the names an executor may carry a value for.
EnvNames == EnvKeys \cup {"GOPATH", "GO111MODULE"}
EnvValues == {"1", "github.com/owner/name"}
WorkDirs == {"/goapp/src/github.com/owner/name", "/goapp"}

Tasks == {"analyze", "analyzeV2"}

\* The executor NewTempDirShell returns: the sandbox root, nothing set.
BaseExec == [wd |-> "/tmp/golangci.gopr", env |-> [k \in EnvNames |-> ""]]

\* shell.SetEnv: the name now has the value, whatever it had before.
SetEnv(env, k, v) == [env EXCEPT ![k] = v]

\* WithEnv with a pointer receiver: the receiver itself is changed.
WithEnv_PointerReceiver(h, s, k, v) ==
    LET h2 == [h EXCEPT ![s].env = SetEnv(h[s].env, k, v)]
    IN  Append(h2, h2[s])

\* TempDirShell.WithEnv: eCopy := s; eCopy.SetEnv(k, v); return &eCopy.
\* h is the heap, s the receiver; the new executor is the last of the result.
WithEnv(h, s, k, v) ==
    LET eCopy == h[s]
    IN  Append(h, [eCopy EXCEPT !.env = SetEnv(eCopy.env, k, v)])

\* TempDirShell.WithWorkDir: eCopy := s; eCopy.wd = wd; return &eCopy.
WithWorkDir(h, s, wd) ==
    LET eCopy == h[s]
    IN  Append(h, [eCopy EXCEPT !.wd = wd])

\* One derivation, as it is recorded in `log`.
Derivation(op, s, k, v) ==
    [op |-> op, recv |-> s, key |-> k, val |-> v, before |-> execs]

-----------------------------------------------------------------------------
(* The environment of the worker process: NAME=VALUE entries, each kept as *)
(* a sequence of characters.                                               *)

MaxEnviron == 2

EnvEntries ==
    {<<"H", "O", "M", "E", "=", "/", "r", "o", "o", "t">>,
     <<"A", "P", "I", "=", "s", "3", "c", "r", "3", "t">>,
     <<"K", "E", "Y", "=", "Y", "W", "J", "j", "Z", "A", "=", "=">>,
     <<"O", "P", "T", "=", "a", "=", "b">>,
     <<"E", "M", "P", "T", "Y", "=">>,
     <<"N", "O", "E", "Q", "V", "A", "L", "U", "E">>}

\* The environments of at most MaxEnviron entries.
Environs ==
    UNION {[1..n -> EnvEntries] : n \in 0..MaxEnviron}

\* The environment the pipeline runs in: one value is long enough to be hidden.
WorkerEnviron ==
    <<<<"A", "P", "I", "=", "s", "3", "c", "r", "3", "t">>>>

-----------------------------------------------------------------------------
(* The state record, the structured log of goenvbuild and its answer *)

\* The zero State.
NoState == [status |-> "", issues |-> 0, pubErr |-> "", warnings |-> <<>>,
            timings |-> <<>>, createdAt |-> ""]

\* The creation time of the record the API wrote when it queued the analysis.
CreatedAt == "2018-06-01T10:00:00Z"

\* goenvresult.Log: nil, or groups of steps.
NilLog == [nil |-> TRUE, groups |-> <<>>]

Log(groups) == [nil |-> FALSE, groups |-> groups]

Step(desc, error) == [desc |-> desc, error |-> error]

\* The zero result.Result.
NoEnvbuildResult ==
    [WorkDir |-> "", Environment |-> <<>>, Log |-> NilLog, Error |-> ""]

\* The fields of the githubGoPR that newGithubGoPR returns: exec is the
\* position of the sandbox executor in `execs`.
NewGithubGoPR ==
    [exec |-> 1, resLog |-> NilLog, warnings |-> <<>>, timings |-> <<>>]

\* resultCollector.publicWarn and addTimingFrom / trackTiming.
publicWarn(rc, stage, text) ==
    [rc EXCEPT !.warnings = Append(@, [stage |-> stage, text |-> text])]

addTiming(rc, name) == [rc EXCEPT !.timings = Append(@, name)]

-----------------------------------------------------------------------------
(* Go2.Setup *)

\* What goenvbuild may write on stdout: two answers without error, one
\* answer per error text, and a text that is no JSON document.
GoenvbuildOutputs ==
    {"answer with log", "answer without log", "not json"}
        \cup {"answer with error " \o t : t \in SetupErrTexts}

\* json.Unmarshal of the stdout into a result.Result.
Unmarshal(out) ==
    CASE out = "answer with log" ->
           [ok |-> TRUE,
            result |->
              [WorkDir |-> "/goapp/src/github.com/owner/name",
               Environment |-> [k \in {"GOPATH", "GO111MODULE"} |->
                                  IF k = "GOPATH" THEN "/goapp" ELSE "on"],
               Log |-> Log(<<[name |-> "prepare",
                              steps |-> <<Step("go mod download",
                                               "bad credentials " \o GithubAccessToken),
                                          Step("go env", "")>>],
                             [name |-> "build",
                              steps |-> <<Step("go build", "exit status 1 ")>>]>>),
               Error |-> ""]]
      [] out = "answer without log" ->
           [ok |-> TRUE,
            result |-> [NoEnvbuildResult EXCEPT !.WorkDir = "/goapp"]]
      [] out = "not json" ->
           [ok |-> FALSE, result |-> NoEnvbuildResult]
      [] OTHER ->
           [ok |-> TRUE,
            result |-> [NoEnvbuildResult EXCEPT
                          !.Error = CHOOSE t \in SetupErrTexts :
                                      out = "answer with error " \o t]]

\* for k, v := range environment { retExec = retExec.WithEnv(k, v) }: the
\* heap after the loop; the last executor of the heap is retExec.
RECURSIVE ApplyEnvironment(_, _, _, _)
ApplyEnvironment(h, s, environment, keys) ==
    IF keys = {}
    THEN h
    ELSE LET k == CHOOSE k \in keys : TRUE
             h2 == WithEnv(h, s, k, environment[k])
         IN  ApplyEnvironment(h2, Len(h2), environment, keys \ {k})

\* What Go2.Setup hands back: the heap of executors after it, the executor
\* it returns (0 for nil), the log, the error text ("" for nil) and the
\* decoded answer.
SetupResult(h, exec, lg, err, result) ==
    [heap |-> h, exec |-> exec, log |-> lg, err |-> err, result |-> result]

\* Go2.Setup that does not look at the error field of the answer.
Go2Setup_ErrorIgnored(h, fetchErr, runErr, out) ==
    IF fetchErr # ""
    THEN SetupResult(h, 0, NilLog, "failed to fetch repo: " \o fetchErr,
                     NoEnvbuildResult)
    ELSE LET h1 == WithEnv(h, 1, "REPO", "github.com/owner/name")
             h2 == WithEnv(h1, Len(h1), "FORMAT_JSON", "1")
             d == Unmarshal(out)
         IN  IF runErr # ""
             THEN SetupResult(h2, 0, NilLog, "goenvbuild failed: " \o runErr,
                              NoEnvbuildResult)
             ELSE IF ~d.ok
             THEN SetupResult(h2, 0, NilLog,
                              "failed to unmarshal goenvbuild result json: "
                                  \o UnmarshalErrText,
                              NoEnvbuildResult)
             ELSE LET h3 == WithWorkDir(h2, 1, d.result.WorkDir)
                      h4 == ApplyEnvironment(h3, Len(h3), d.result.Environment,
                                             DOMAIN d.result.Environment)
                  IN  SetupResult(h4, Len(h4), d.result.Log, "", d.result)

\* Go2.Setup on the heap h, with w.exec the base executor: fetchErr and
\* runErr are the error texts of the repo fetch and of the goenvbuild run
\* ("" for none), out is the stdout of goenvbuild.
Go2Setup(h, fetchErr, runErr, out) ==
    IF fetchErr # ""
    THEN SetupResult(h, 0, NilLog, "failed to fetch repo: " \o fetchErr,
                     NoEnvbuildResult)
    ELSE LET h1 == WithEnv(h, 1, "REPO", "github.com/owner/name")
             h2 == WithEnv(h1, Len(h1), "FORMAT_JSON", "1")
             d == Unmarshal(out)
         IN  IF runErr # ""
             THEN SetupResult(h2, 0, NilLog, "goenvbuild failed: " \o runErr,
                              NoEnvbuildResult)
             ELSE IF ~d.ok
             THEN SetupResult(h2, 0, NilLog,
                              "failed to unmarshal goenvbuild result json: "
                                  \o UnmarshalErrText,
                              NoEnvbuildResult)
             ELSE IF d.result.Error # ""
             THEN SetupResult(h2, 0, NilLog,
                              "goenvbuild internal error: " \o d.result.Error,
                              d.result)
             ELSE LET h3 == WithWorkDir(h2, 1, d.result.WorkDir)
                      h4 == ApplyEnvironment(h3, Len(h3), d.result.Environment,
                                             DOMAIN d.result.Environment)
                  IN  SetupResult(h4, Len(h4), d.result.Log, "", d.result)

\* The executor workspaces.Go hands back after Setup: derived from the
\* sandbox executor, pointing at the project directory in the GOPATH.
GoExecutor(h) ==
    LET h1 == WithWorkDir(h, 1, Gopath \o "/src/github.com/owner/name")
    IN  WithEnv(h1, Len(h1), "GOPATH", Gopath)

-----------------------------------------------------------------------------
(* Initial state: the handler has been invoked for a job whose record the  *)
(* API created as sent_to_queue; on a retry the record may already be      *)
(* processing.                                                             *)

\* The state in which the handler starts, the environment apart.
Start ==
    /\ secrets = <<>>
    /\ redelivered = FALSE
    /\ g = NewGithubGoPR
    /\ curState = NoState
    /\ envbuildResult = NoEnvbuildResult
    /\ task \in Tasks
    /\ execs = <<BaseExec>>
    /\ driver \in Drivers
    /\ newWorkspaceInstaller \in BOOLEAN
    /\ driver = "part_000" => ~newWorkspaceInstaller
    /\ pc = "analyze"
    /\ deadline = FALSE
    /\ pr = ""
    /\ gwClean = FALSE
    /\ res = NilResult
    /\ werr = NoErr
    /\ perr = NoErr
    /\ panicking = FALSE
    /\ procRet = Running
    /\ handlerRet = Running
    /\ store \in {[NoState EXCEPT !.status = st, !.createdAt = CreatedAt] :
                    st \in {statusSentToQueue, statusProcessing}}
    /\ provider = [status |-> "", desc |-> "", url |-> ""]
    /\ log = <<>>

Init ==
    /\ environ = WorkerEnviron
    /\ Start

-----------------------------------------------------------------------------
(* Steps shared by the actions *)

\* `return err` in Process: the deferred calls run next.
Return(err) ==
    /\ perr' = err
    /\ pc' = "deferred"

\* A collaborator called from Process, outside work(), panics: nothing
\* recovers before Process' deferred calls have run.
PanicInProcess(op) ==
    /\ log' = Append(log, Call(op, "job", "panic"))
    /\ panicking' = TRUE
    /\ pc' = "deferred"
    /\ UNCHANGED perr

\* \* NextStage that sets the pending status after the provisioning.
NextStage_PendingAfterSetup(stage) ==
    IF driver = "github_go_pr"
    THEN CASE stage = "GetPullRequest" -> "Setup"
           [] stage = "Setup" -> "SetPending"
           [] stage = "SetPending" -> "GetPullRequestPatch"
           [] stage = "GetPullRequestPatch" -> "storePatch"
           [] stage = "storePatch" -> "GetState"
    ELSE CASE stage = "GetPullRequest" -> "Setup"
           [] stage = "Setup" -> "GetPullRequestPatch"
           [] stage = "GetPullRequestPatch" -> "storePatch"
           [] stage = "storePatch" -> "SetPending"
           [] stage = "SetPending" -> "GetState"

\* The stage after `stage` in Process; the two drivers set the pending
\* status at different places.
NextStage(stage) ==
    IF driver = "github_go_pr"
    THEN CASE stage = "GetPullRequest" -> "SetPending"
           [] stage = "SetPending" -> "Setup"
           [] stage = "Setup" -> "GetPullRequestPatch"
           [] stage = "GetPullRequestPatch" -> "storePatch"
           [] stage = "storePatch" -> "GetState"
    ELSE CASE stage = "GetPullRequest" -> "Setup"
           [] stage = "Setup" -> "GetPullRequestPatch"
           [] stage = "GetPullRequestPatch" -> "storePatch"
           [] stage = "storePatch" -> "SetPending"
           [] stage = "SetPending" -> "GetState"

-----------------------------------------------------------------------------
(* analyze: derives the job context and builds the processor *)

analyze ==
    /\ pc = "analyze"
    /\ \/ /\ pc' = "GetPullRequest"
          /\ UNCHANGED handlerRet
       \/ /\ handlerRet' = Returned(FALSE, Errorf("can't build processor"))
          /\ pc' = "returned"
    /\ UNCHANGED <<processVars, g, curState, envbuildResult, task, execs, driver, newWorkspaceInstaller, deadline, pr, gwClean, res,
                   werr, perr, panicking, procRet, store, provider, log>>

\* The deadline of the job context passes.
DeadlineExpires ==
    /\ pc # "returned"
    /\ ~deadline
    /\ deadline' = TRUE
    /\ UNCHANGED <<processVars, g, curState, envbuildResult, task, execs, driver, newWorkspaceInstaller, pc, pr, gwClean, res, werr,
                   perr, panicking, procRet, handlerRet, store, provider, log>>

-----------------------------------------------------------------------------
(* Process, up to the call of processWithGuaranteedGithubStatus *)

\* ProcessGetPullRequest that swallows a recoverable error of the adapter.
ProcessGetPullRequest_Swallow ==
    /\ pc = "GetPullRequest"
    /\ \/ /\ ~Cancelled("job")
          /\ pr' \in PRStates
          /\ log' = Append(log, Call("GetPullRequest", "job", "ok"))
          /\ pc' = NextStage("GetPullRequest")
          /\ UNCHANGED <<werr, perr, panicking>>
       \/ \E e \in TransportErrors :
            /\ log' = Append(log, Call("GetPullRequest", "job", "err"))
            /\ werr' = e
            /\ Return(IF ~IsRecoverableError(e) THEN e ELSE NoErr)
            /\ UNCHANGED <<pr, panicking>>
       \/ /\ PanicInProcess("GetPullRequest")
          /\ UNCHANGED <<pr, werr>>
    /\ UNCHANGED <<processVars, g, curState, envbuildResult, task, execs, driver, newWorkspaceInstaller, deadline, gwClean, res,
                   procRet, handlerRet, store, provider>>

ProcessGetPullRequest ==
    /\ pc = "GetPullRequest"
    /\ \/ /\ ~Cancelled("job")
          /\ pr' \in PRStates
          /\ log' = Append(log, Call("GetPullRequest", "job", "ok"))
          /\ pc' = NextStage("GetPullRequest")
          /\ UNCHANGED <<werr, perr, panicking>>
       \/ \E e \in TransportErrors :
            /\ log' = Append(log, Call("GetPullRequest", "job", "err"))
            /\ werr' = e
            /\ Return(IF ~IsRecoverableError(e) THEN e
                      ELSE Errorf("can't get pull request"))
            /\ UNCHANGED <<pr, panicking>>
       \/ /\ PanicInProcess("GetPullRequest")
          /\ UNCHANGED <<pr, werr>>
    /\ UNCHANGED <<processVars, g, curState, envbuildResult, task, execs, driver, newWorkspaceInstaller, deadline, gwClean, res,
                   procRet, handlerRet, store, provider>>

\* Setup of the configured provisioner.  In-process provisioner: one call
\* of workspaces.Go.Setup.  Go2.Setup: the repo fetch, then goenvbuild, then
\* the decoding of its answer.
ProcessSetup ==
    /\ pc = "Setup"
    /\ IF ~newWorkspaceInstaller
       THEN \/ /\ log' = Append(log, Call("gw.Setup", "job", "ok"))
               /\ gwClean' = TRUE
               /\ execs' = GoExecutor(execs)
               /\ g' = [g EXCEPT !.exec = Len(execs')]
               /\ pc' = NextStage("Setup")
               /\ UNCHANGED <<werr, perr, panicking, envbuildResult>>
            \/ \E t \in SetupErrTexts :
                 /\ log' = Append(log, Call("gw.Setup", "job", "err"))
                 /\ werr' = Errorf(t)
                 /\ IF driver = "github_go_pr"
                    THEN pc' = "SetupFailedState" /\ UNCHANGED perr
                    ELSE Return(Errorf("can't setup go workspace"))
                 /\ UNCHANGED <<gwClean, panicking, execs, g, envbuildResult>>
            \/ /\ PanicInProcess("gw.Setup")
               /\ UNCHANGED <<gwClean, werr, execs, g, envbuildResult>>
       ELSE \/ \E fetchErr \in SetupErrTexts \cup {""},
                  runErr \in SetupErrTexts \cup {""},
                  out \in GoenvbuildOutputs :
                 LET r == Go2Setup(execs, fetchErr, runErr, out)
                 IN  \* one outcome per failing call: what follows it is not drawn
                     /\ fetchErr # "" => runErr = "" /\ out = "not json"
                     /\ runErr # "" => out = "not json"
                     /\ log' = log \o
                          (IF fetchErr # "" THEN <<Call("Fetch", "job", "err")>>
                           ELSE IF runErr # ""
                           THEN <<Call("Fetch", "job", "ok"),
                                  Call("goenvbuild", "job", "err")>>
                           ELSE <<Call("Fetch", "job", "ok"),
                                  [Call("goenvbuild", "job", "ok") EXCEPT !.ref = out]>>)
                     /\ execs' = r.heap
                     /\ envbuildResult' = r.result
                     /\ IF r.err # ""
                        THEN /\ werr' = Errorf(r.err)
                             /\ pc' = "SetupFailedState"
                             /\ UNCHANGED g
                        ELSE /\ g' = addTiming([g EXCEPT !.exec = r.exec,
                                                          !.resLog = r.log],
                                               "Prepare")
                             /\ pc' = NextStage("Setup")
                             /\ UNCHANGED werr
                     /\ UNCHANGED <<gwClean, perr, panicking>>
            \/ /\ PanicInProcess("Fetch")
               /\ UNCHANGED <<gwClean, werr, execs, g, envbuildResult>>
    /\ UNCHANGED <<processVars, curState, task, driver, newWorkspaceInstaller, deadline, pr,
                   res, procRet, handlerRet, store, provider>>

\* ProcessSetupFailed without the call that sets the error status.
ProcessSetupFailed_NoStatus ==
    /\ pc \in {"SetupFailedState", "SetupFailedStatus"}
    /\ IF pc = "SetupFailedState"
       THEN /\ updateAnalysisState("job", NilResult, StatusError,
                   escapeErrorText("failed to setup workspace: " \o werr.desc,
                                   buildSecrets))
            /\ pc' = "SetupFailedStatus"
            /\ UNCHANGED <<perr, provider>>
       ELSE /\ Return(IF newWorkspaceInstaller THEN NoErr
                      ELSE Errorf("can't setup go workspace"))
            /\ UNCHANGED <<store, provider, log>>
    /\ UNCHANGED <<processVars, g, curState, envbuildResult, task, execs, driver, newWorkspaceInstaller, deadline, pr, gwClean, res,
                   werr, panicking, procRet, handlerRet>>

\* ProcessSetupFailed without the return: Process goes on to the patch.
ProcessSetupFailed_NoReturn ==
    /\ pc \in {"SetupFailedState", "SetupFailedStatus"}
    /\ IF pc = "SetupFailedState"
       THEN /\ updateAnalysisState("job", NilResult, StatusError,
                   escapeErrorText("failed to setup workspace: " \o werr.desc,
                                   buildSecrets))
            /\ pc' = "SetupFailedStatus"
            /\ UNCHANGED <<perr, provider>>
       ELSE /\ setCommitStatus("job", StatusError, "failed to setup")
            /\ pc' = NextStage("Setup")
            /\ UNCHANGED <<perr, store>>
    /\ UNCHANGED <<processVars, g, curState, envbuildResult, task, execs, driver, newWorkspaceInstaller, deadline, pr, gwClean, res,
                   werr, panicking, procRet, handlerRet>>

\* Provisioning failed (github_go_pr.go): the terminal record is put, then
\* the error status is set, both on the job context, and Process returns.
ProcessSetupFailed ==
    /\ pc \in {"SetupFailedState", "SetupFailedStatus"}
    /\ IF pc = "SetupFailedState"
       THEN /\ updateAnalysisState("job", NilResult, StatusError,
                   escapeErrorText("failed to setup workspace: " \o werr.desc,
                                   buildSecrets))
            /\ pc' = "SetupFailedStatus"
            /\ UNCHANGED <<perr, provider>>
       ELSE /\ setCommitStatus("job", StatusError, "failed to setup")
            /\ Return(IF newWorkspaceInstaller THEN NoErr
                      ELSE Errorf("can't setup go workspace"))
            /\ UNCHANGED store
    /\ UNCHANGED <<processVars, g, curState, envbuildResult, task, execs, driver, newWorkspaceInstaller, deadline, pr, gwClean, res,
                   werr, panicking, procRet, handlerRet>>

ProcessGetPullRequestPatch ==
    /\ pc = "GetPullRequestPatch"
    /\ \/ /\ ~Cancelled("job")
          /\ log' = Append(log, Call("GetPullRequestPatch", "job", "ok"))
          /\ pc' = NextStage("GetPullRequestPatch")
          /\ UNCHANGED <<werr, perr, panicking>>
       \/ \E e \in TransportErrors :
            /\ log' = Append(log, Call("GetPullRequestPatch", "job", "err"))
            /\ werr' = e
            /\ Return(IF ~IsRecoverableError(e) THEN e
                      ELSE Errorf("can't get patch"))
            /\ UNCHANGED panicking
       \/ /\ PanicInProcess("GetPullRequestPatch")
          /\ UNCHANGED werr
    /\ UNCHANGED <<processVars, g, curState, envbuildResult, task, execs, driver, newWorkspaceInstaller, deadline, pr, gwClean, res,
                   procRet, handlerRet, store, provider>>

\* storePatch: a failure of ioutil.TempFile leaves f nil and the deferred
\* os.Remove(f.Name()) panics; a failure of WriteFile or CopyFile is returned.
ProcessStorePatch ==
    /\ pc = "storePatch"
    /\ \/ /\ log' = Append(log, Call("storePatch", "job", "ok"))
          /\ pc' = NextStage("storePatch")
          /\ UNCHANGED <<perr, panicking>>
       \/ /\ log' = Append(log, Call("storePatch", "job", "err"))
          /\ Return(Errorf("can't store patch"))
          /\ UNCHANGED panicking
       \/ PanicInProcess("storePatch")
    /\ UNCHANGED <<processVars, g, curState, envbuildResult, task, execs, driver, newWorkspaceInstaller, deadline, pr, gwClean, res,
                   werr, procRet, handlerRet, store, provider>>

ProcessSetPending ==
    /\ pc = "SetPending"
    /\ \/ /\ setCommitStatus("job", StatusPending,
                              "GolangCI is reviewing your Pull Request...")
          /\ pc' = NextStage("SetPending")
          /\ UNCHANGED panicking
          /\ UNCHANGED perr
       \/ /\ PanicInProcess("SetCommitStatus")
          /\ UNCHANGED provider
    /\ UNCHANGED <<processVars, g, curState, envbuildResult, task, execs, driver, newWorkspaceInstaller, deadline, pr, gwClean, res,
                   werr, procRet, handlerRet, store>>


\* ProcessGetState that goes on to the write whatever status it read.
ProcessGetState_AnyStatus ==
    /\ pc = "GetState"
    /\ \/ \E ok \in Answers("job") :
            /\ log' = Append(log, Event("GetState", "job", Result3(ok),
                                        IF ok THEN store.status ELSE "", "", "", 0, ""))
            /\ curState' = IF ok THEN store ELSE curState
            /\ pc' = IF ok THEN "UpdateProcessing" ELSE "work"
            /\ UNCHANGED <<perr, panicking>>
       \/ /\ PanicInProcess("GetState")
          /\ UNCHANGED curState
    /\ UNCHANGED <<processVars, g, envbuildResult, task, execs, driver, newWorkspaceInstaller,
                   deadline, pr, gwClean, res, werr, procRet, handlerRet, store, provider>>

\* Refresh of the queue timing: the record is read ...
ProcessGetState ==
    /\ pc = "GetState"
    /\ \/ \E ok \in Answers("job") :
            /\ log' = Append(log, Event("GetState", "job", Result3(ok),
                                        IF ok THEN store.status ELSE "", "", "", 0, ""))
            /\ curState' = IF ok THEN store ELSE curState
            /\ pc' = IF ok /\ store.status = statusSentToQueue
                     THEN "UpdateProcessing" ELSE "work"
            /\ UNCHANGED <<perr, panicking>>
       \/ /\ PanicInProcess("GetState")
          /\ UNCHANGED curState
    /\ UNCHANGED <<processVars, g, envbuildResult, task, execs, driver, newWorkspaceInstaller,
                   deadline, pr, gwClean, res, werr, procRet, handlerRet, store, provider>>

\* ProcessUpdateProcessing that puts a fresh record with the new status.
ProcessUpdateProcessing_FreshRecord ==
    /\ pc = "UpdateProcessing"
    /\ g' = addTiming(g, "In Queue")
    /\ curState' = [NoState EXCEPT !.status = statusProcessing]
    /\ \/ \E ok \in Answers("job") :
            /\ log' = Append(log, WithWarnings(Event("UpdateState", "job", Result3(ok),
                                                     curState'.status, "",
                                                     curState'.pubErr, curState'.issues,
                                                     ""),
                                               curState'.warnings))
            /\ store' = IF ok THEN curState' ELSE store
            /\ pc' = "work"
            /\ UNCHANGED <<perr, panicking>>
       \/ /\ PanicInProcess("UpdateState")
          /\ UNCHANGED store
    /\ UNCHANGED <<processVars, envbuildResult, task, execs, driver, newWorkspaceInstaller,
                   deadline, pr, gwClean, res, werr, procRet, handlerRet, provider>>

\* ... and, read as sent_to_queue: the "In Queue" timing is recorded and the
\* record is put back with the status processing.
ProcessUpdateProcessing ==
    /\ pc = "UpdateProcessing"
    /\ g' = addTiming(g, "In Queue")
    /\ curState' = [curState EXCEPT !.status = statusProcessing]
    /\ \/ \E ok \in Answers("job") :
            /\ log' = Append(log, WithWarnings(Event("UpdateState", "job", Result3(ok),
                                                     curState'.status, "",
                                                     curState'.pubErr, curState'.issues,
                                                     ""),
                                               curState'.warnings))
            /\ store' = IF ok THEN curState' ELSE store
            /\ pc' = "work"
            /\ UNCHANGED <<perr, panicking>>
       \/ /\ PanicInProcess("UpdateState")
          /\ UNCHANGED store
    /\ UNCHANGED <<processVars, envbuildResult, task, execs, driver, newWorkspaceInstaller,
                   deadline, pr, gwClean, res, werr, procRet, handlerRet, provider>>

-----------------------------------------------------------------------------
(* work: runs under the deferred recover *)

\* work returns (r, e) to processWithGuaranteedGithubStatus.
WorkReturn(r, e) ==
    /\ res' = r
    /\ werr' = e
    /\ pc' = "updateAnalysisState"

\* PanicInWork whose deferred function recovers but does not set err.
PanicInWork_ErrNotSet(op, v) ==
    /\ log' = Append(log, Call(op, "job", "panic"))
    /\ WorkReturn(res, werr)

\* A collaborator called from work() panics with value v: the deferred
\* function sets err; the named result res keeps its value.
PanicInWork(op, v) ==
    /\ log' = Append(log, Call(op, "job", "panic"))
    /\ WorkReturn(res, InternalError("golangci-worker panic-ed",
                                      <<"panic occured:", v, "goroutine 1 [running]">>))

WorkCheckState ==
    /\ pc = "work"
    /\ LET prState == ToUpper(pr)
       IN  IF prState = "MERGED" \/ prState = "CLOSED"
           THEN /\ g' = publicWarn(g, "process",
                                   "Pull Request is already " \o prState
                                       \o ", skip analysis")
                /\ WorkReturn(NilResult,
                              IgnoredError(StatusSuccess,
                                           "Pull Request is already " \o ToLower(prState),
                                           FALSE))
           ELSE pc' = "prepareRepo" /\ UNCHANGED <<res, werr, g>>
    /\ UNCHANGED <<processVars, curState, envbuildResult, task, execs, driver,
                   newWorkspaceInstaller, deadline, pr, gwClean, perr,
                   panicking, procRet, handlerRet, store, provider, log>>

\* The steps of a group whose error is not empty, as warnings.
RECURSIVE StepWarnings(_, _)
StepWarnings(name, steps) ==
    IF steps = <<>>
    THEN <<>>
    ELSE (IF steps[1].error # ""
          THEN <<[stage |-> name,
                  text |-> escapeErrorText(steps[1].desc \o " error: " \o steps[1].error,
                                           buildSecrets)]>>
          ELSE <<>>)
         \o StepWarnings(name, Tail(steps))

\* ResLogWarnings that warns about every step.
RECURSIVE ResLogWarnings_EveryStep(_)
ResLogWarnings_EveryStep(groups) ==
    IF groups = <<>>
    THEN <<>>
    ELSE [i \in DOMAIN groups[1].steps |->
            [stage |-> groups[1].name,
             text |-> escapeErrorText(groups[1].steps[i].desc \o " error: "
                                          \o groups[1].steps[i].error,
                                      buildSecrets)]]
         \o ResLogWarnings_EveryStep(Tail(groups))

\* The warnings prepareRepo publishes for the log of the provisioning.
RECURSIVE ResLogWarnings(_)
ResLogWarnings(groups) ==
    IF groups = <<>>
    THEN <<>>
    ELSE StepWarnings(groups[1].name, groups[1].steps)
         \o ResLogWarnings(Tail(groups))

\* The warnings of ensuredeps that FetchDeps may answer with.
DepsWarnings == <<[Kind |-> "vendor", Text |-> "bad credentials " \o GithubAccessToken]>>

\* prepareRepo: with the goenvbuild provisioner it only walks the log of the
\* provisioning; otherwise it clones the repo and fetches the dependencies.
WorkPrepareRepo ==
    /\ pc = "prepareRepo"
    /\ IF driver = "github_go_pr" /\ newWorkspaceInstaller
       THEN /\ g' = [g EXCEPT !.warnings =
                        @ \o (IF g.resLog.nil THEN <<>>
                              ELSE ResLogWarnings(g.resLog.groups))]
            /\ pc' = "Run"
            /\ UNCHANGED <<res, werr, log>>
       ELSE \/ /\ log' = Append(log, Call("Fetch", "job", "err"))
               /\ g' = addTiming(g, "Clone")
               /\ WorkReturn(NilResult,
                       InternalError("can't clone git repo",
                                     <<"can't clone git repo:", "exit status 128">>))
            \/ \E deps \in {"ok", "err"} :
                 /\ log' = log \o <<Call("Fetch", "job", "ok"),
                                    Call("FetchDeps", "job", deps)>>
                 /\ g' = LET timed == addTiming(addTiming(g, "Clone"), "Deps")
                         IN  IF deps = "ok"
                             THEN publicWarn(timed, "prepare repo",
                                      escapeErrorText("Fetch deps: " \o DepsWarnings[1].Kind
                                                          \o ": " \o DepsWarnings[1].Text,
                                                      buildSecrets))
                             ELSE timed
                 /\ pc' = "Run"
                 /\ UNCHANGED <<res, werr>>
            \/ /\ \E v \in PanicValues : PanicInWork("Fetch", v)
               /\ UNCHANGED g
    /\ UNCHANGED <<processVars, curState, envbuildResult, task, execs, driver,
                   newWorkspaceInstaller, deadline, pr, gwClean, perr,
                   panicking, procRet, handlerRet, store, provider>>

WorkRun ==
    /\ pc = "Run"
    /\ \/ \E n \in 0..MaxIssues :
            /\ log' = Append(log, Event("Run", "job", "ok", "", "", "", n, ""))
            /\ g' = addTiming(g, "Analysis")
            /\ res' = Result(n)
            /\ pc' = "Report"
            /\ UNCHANGED werr
       \/ \E e \in RunErrors :
            /\ log' = Append(log, Call("Run", "job", "err"))
            /\ g' = addTiming(g, "Analysis")
            /\ WorkReturn(NilResult, e)
       \/ /\ \E v \in PanicValues : PanicInWork("Run", v)
          /\ UNCHANGED g
    /\ UNCHANGED <<processVars, curState, envbuildResult, task, execs, driver,
                   newWorkspaceInstaller, deadline, pr, gwClean, perr,
                   panicking, procRet, handlerRet, store, provider>>

WorkReport ==
    /\ pc = "Report"
    /\ \/ /\ log' = Append(log, AtCommit(Event("Report", "job", "ok", "", "", "",
                                                res.issues, ""), HeadSHA))
          /\ WorkReturn(res, NoErr)
       \/ /\ log' = Append(log, AtCommit(Event("Report", "job", "err", "", "", "",
                                                res.issues, ""), HeadSHA))
          /\ WorkReturn(NilResult,
                  InternalError("can't send pull request comments to github",
                                <<"can't send pull request comments to github:",
                                  "api error">>))
       \/ \E v \in PanicValues : PanicInWork("Report", v)
    /\ UNCHANGED <<processVars, g, curState, envbuildResult, task, execs, driver, newWorkspaceInstaller, deadline, pr, gwClean, perr,
                   panicking, procRet, handlerRet, store, provider>>

-----------------------------------------------------------------------------
(* processWithGuaranteedGithubStatus, after work() has returned: ctx is    *)
(* replaced by context.Background(), the outcome is classified, the state  *)
(* is updated, the commit status is set, err is returned.                  *)

\* processWithGuaranteedGithubStatus with the two writes in the other order.
processWithGuaranteedGithubStatus_Swapped ==
    /\ pc \in {"updateAnalysisState", "setCommitStatus"}
    /\ LET ctx == "background"
           o == Classify(werr, res)
       IN  IF pc = "updateAnalysisState"
           THEN /\ setCommitStatus(ctx, o.status, o.desc)
                /\ pc' = "setCommitStatus"
                /\ UNCHANGED <<perr, store>>
           ELSE /\ updateAnalysisState(ctx, res, o.status, o.pubErr)
                /\ Return(o.err)
                /\ UNCHANGED provider
    /\ UNCHANGED <<processVars, g, curState, envbuildResult, task, execs, driver, newWorkspaceInstaller, deadline, pr, gwClean, res,
                   werr, panicking, procRet, handlerRet>>

\* processWithGuaranteedGithubStatus without `ctx = context.Background()`.
processWithGuaranteedGithubStatus_JobCtx ==
    /\ pc \in {"updateAnalysisState", "setCommitStatus"}
    /\ LET ctx == "job"
           o == Classify(werr, res)
       IN  IF pc = "updateAnalysisState"
           THEN /\ updateAnalysisState(ctx, res, o.status, o.pubErr)
                /\ pc' = "setCommitStatus"
                /\ UNCHANGED <<perr, provider>>
           ELSE /\ setCommitStatus(ctx, o.status, o.desc)
                /\ Return(o.err)
                /\ UNCHANGED store
    /\ UNCHANGED <<processVars, g, curState, envbuildResult, task, execs, driver, newWorkspaceInstaller, deadline, pr, gwClean, res,
                   werr, panicking, procRet, handlerRet>>

processWithGuaranteedGithubStatus ==
    /\ pc \in {"updateAnalysisState", "setCommitStatus"}
    /\ LET ctx == "background"
           o == Classify(werr, res)
       IN  IF pc = "updateAnalysisState"
           THEN /\ updateAnalysisState(ctx, res, o.status, o.pubErr)
                /\ pc' = "setCommitStatus"
                /\ UNCHANGED <<perr, provider>>
           ELSE /\ setCommitStatus(ctx, o.status, o.desc)
                /\ Return(o.err)
                /\ UNCHANGED store
    /\ UNCHANGED <<processVars, g, curState, envbuildResult, task, execs, driver, newWorkspaceInstaller, deadline, pr, gwClean, res,
                   werr, panicking, procRet, handlerRet>>

-----------------------------------------------------------------------------
(* The end of Process and of the handler *)

\* TempDirShell.Clean of the executor s: os.RemoveAll(s.wd).
Clean(s) == [Call("exec.Clean", "none", "ok") EXCEPT !.ref = s.wd]

\* ProcessReturn that cleans the executor g.exec names when Process ends.
ProcessReturn_CleanCurrent ==
    /\ pc = "deferred"
    /\ log' = log \o (IF gwClean THEN <<Call("gw.Clean", "job", "ok")>> ELSE <<>>)
                  \o <<Clean(execs[g.exec])>>
    /\ procRet' = Returned(panicking, perr)
    /\ pc' = "analyzeReturn"
    /\ UNCHANGED <<processVars, g, curState, envbuildResult, task, execs, driver, newWorkspaceInstaller, deadline, pr, gwClean, res,
                   werr, perr, panicking, handlerRet, store, provider>>

\* The deferred calls of Process run, last registered first, then Process
\* returns perr or goes on panicking.
ProcessReturn ==
    /\ pc = "deferred"
    /\ log' = log \o (IF gwClean THEN <<Call("gw.Clean", "job", "ok")>> ELSE <<>>)
                  \o <<Clean(execs[NewGithubGoPR.exec])>>
    /\ procRet' = Returned(panicking, perr)
    /\ pc' = "analyzeReturn"
    /\ UNCHANGED <<processVars, g, curState, envbuildResult, task, execs, driver, newWorkspaceInstaller, deadline, pr, gwClean, res,
                   werr, perr, panicking, handlerRet, store, provider>>

\* analyzeWrappedV2 without the deferred recover: the panic goes on.
analyzeWrappedV2_NoRecover ==
    /\ pc = "analyzeReturn"
    /\ handlerRet' =
           IF procRet.panic THEN Returned(TRUE, NoErr)
           ELSE IF procRet.err.kind # "nil"
                THEN Returned(FALSE, Errorf("can't process task: " \o procRet.err.desc))
                ELSE Returned(FALSE, NoErr)
    /\ pc' = "returned"
    /\ UNCHANGED <<processVars, g, curState, envbuildResult, task, execs, driver, newWorkspaceInstaller, deadline, pr, gwClean, res,
                   werr, perr, panicking, procRet, store, provider, log>>

\* analyze wraps an error of Process; analyzeWrappedV2 recovers a panic and
\* returns it as an error.
analyzeWrappedV2 ==
    /\ pc = "analyzeReturn"
    /\ handlerRet' =
           IF procRet.panic THEN Returned(FALSE, Errorf("panic recovered"))
           ELSE IF procRet.err.kind # "nil"
                THEN Returned(FALSE, Errorf("can't process task: " \o procRet.err.desc))
                ELSE Returned(FALSE, NoErr)
    /\ pc' = "returned"
    /\ UNCHANGED <<processVars, g, curState, envbuildResult, task, execs, driver, newWorkspaceInstaller, deadline, pr, gwClean, res,
                   werr, perr, panicking, procRet, store, provider, log>>

\* The handler of the task "analyze": analyzeWrappedV2 with no analysis id.
analyzeWrapped ==
    /\ task = "analyze"
    /\ analyzeWrappedV2

Next ==
    \/ analyze
    \/ DeadlineExpires
    \/ ProcessGetPullRequest
    \/ ProcessSetPending
    \/ ProcessSetup
    \/ ProcessSetupFailed
    \/ ProcessGetPullRequestPatch
    \/ ProcessStorePatch
    \/ ProcessGetState
    \/ ProcessUpdateProcessing
    \/ WorkCheckState
    \/ WorkPrepareRepo
    \/ WorkRun
    \/ WorkReport
    \/ processWithGuaranteedGithubStatus
    \/ ProcessReturn
    \/ analyzeWrapped
    \/ task = "analyzeV2" /\ analyzeWrappedV2

Spec == Init /\ [][Next]_vars

-----------------------------------------------------------------------------
(* Derivations of executors, in any order and from any executor *)

CallWithEnv ==
    /\ Len(execs) < MaxExecs
    /\ \E s \in DOMAIN execs, k \in EnvKeys, v \in EnvValues :
          /\ execs' = WithEnv(execs, s, k, v)
          /\ log' = Append(log, Derivation("WithEnv", s, k, v))
    /\ UNCHANGED <<processVars, g, curState, envbuildResult, task, driver, newWorkspaceInstaller, pc, deadline, pr, gwClean, res,
                   werr, perr, panicking, procRet, handlerRet, store, provider>>

CallWithWorkDir ==
    /\ Len(execs) < MaxExecs
    /\ \E s \in DOMAIN execs, wd \in WorkDirs :
          /\ execs' = WithWorkDir(execs, s, wd)
          /\ log' = Append(log, Derivation("WithWorkDir", s, "", wd))
    /\ UNCHANGED <<processVars, g, curState, envbuildResult, task, driver, newWorkspaceInstaller, pc, deadline, pr, gwClean, res,
                   werr, perr, panicking, procRet, handlerRet, store, provider>>

NextExec ==
    \/ CallWithEnv
    \/ CallWithWorkDir

SpecExec == Init /\ [][NextExec]_vars

-----------------------------------------------------------------------------
(* Redelivery: the queue hands a task whose handler returned an error to   *)
(* the handler again; the record and the commit status are as the earlier  *)
(* invocation left them.                                                   *)

Retry ==
    /\ pc = "returned"
    /\ handlerRet.done
    /\ handlerRet.err # NoErr
    /\ redelivered' = TRUE
    /\ g' = NewGithubGoPR
    /\ curState' = NoState
    /\ envbuildResult' = NoEnvbuildResult
    /\ execs' = <<BaseExec>>
    /\ pc' = "analyze"
    /\ deadline' = FALSE
    /\ pr' = ""
    /\ gwClean' = FALSE
    /\ res' = NilResult
    /\ werr' = NoErr
    /\ perr' = NoErr
    /\ panicking' = FALSE
    /\ procRet' = Running
    /\ handlerRet' = Running
    /\ log' = <<>>
    /\ UNCHANGED <<environ, secrets, task, driver, newWorkspaceInstaller, store,
                   provider>>

\* The first delivery of a job of the task analyzeV2, which carries the
\* analysis id, to the driver of github_go_pr.go with the goenvbuild
\* provisioner: the API has stored the record as sent_to_queue.
InitRetry ==
    /\ Init
    /\ task = "analyzeV2"
    /\ driver = "github_go_pr"
    /\ newWorkspaceInstaller
    /\ store.status = statusSentToQueue

NextRetry ==
    \/ analyze
    \/ DeadlineExpires
    \/ ProcessGetPullRequest
    \/ ProcessSetPending
    \/ ProcessSetup
    \/ ProcessSetupFailed
    \/ ProcessGetPullRequestPatch
    \/ ProcessStorePatch
    \/ ProcessGetState
    \/ ProcessUpdateProcessing
    \/ WorkCheckState
    \/ WorkPrepareRepo
    \/ WorkRun
    \/ WorkReport
    \/ processWithGuaranteedGithubStatus
    \/ ProcessReturn
    \/ analyzeWrappedV2
    \/ Retry

SpecRetry == InitRetry /\ [][NextRetry]_vars

-----------------------------------------------------------------------------
(* buildSecrets under any environment of the worker process *)

InitSecrets ==
    /\ environ \in Environs
    /\ Start

\* One call of buildSecrets; the map it returns is kept in `secrets`.
CallBuildSecrets ==
    /\ secrets = <<>>
    /\ secrets' = buildSecrets
    /\ UNCHANGED <<environ, redelivered, g, curState, envbuildResult, task, execs,
                   driver, newWorkspaceInstaller, pc, deadline, pr, gwClean, res,
                   werr, perr, panicking, procRet, handlerRet, store, provider, log>>

NextSecrets == CallBuildSecrets

SpecSecrets == InitSecrets /\ [][NextSecrets]_vars

-----------------------------------------------------------------------------
(* Vocabulary of the properties *)

ProcessedStatuses == {"processed/" \o st : st \in TerminalStatuses}

IsTerminalStateWrite(e) == e.op = "UpdateState" /\ e.status \in ProcessedStatuses

IsTerminalStatusCall(e) == e.op = "SetCommitStatus" /\ e.status \in TerminalStatuses

TerminalStateWrites == {i \in DOMAIN log : IsTerminalStateWrite(log[i])}

TerminalStatusCalls == {i \in DOMAIN log : IsTerminalStatusCall(log[i])}

\* Process has returned (it did not end in a panic).
ProcessReturned == procRet.done /\ ~procRet.panic

\* Process returned the error of Fetch PR, Fetch patch or Store patch, or,
\* in the driver of part_000, of the provisioning.
EarlyReturn ==
    \E i \in DOMAIN log :
        /\ log[i].result = "err"
        /\ \/ log[i].op \in {"GetPullRequest", "GetPullRequestPatch", "storePatch"}
           \/ driver = "part_000" /\ log[i].op = "gw.Setup"

\* The calls made by processWithGuaranteedGithubStatus after work().
FinalizationCalls ==
    {i \in DOMAIN log : log[i].at \in {"updateAnalysisState", "setCommitStatus"}}

-----------------------------------------------------------------------------
(* C1 *)

\* C1, as stated: on every return path of Process a terminal state record
\* has been written and a terminal commit status has been set.
C1_TerminalOnEveryReturn ==
    ProcessReturned => TerminalStateWrites # {} /\ TerminalStatusCalls # {}

\* C1, amended: Process returns with a terminal state write and a terminal
\* commit status issued on every return path except the early error returns
\* (Fetch PR, Fetch patch, Store patch; provisioning in the driver of
\* part_000), on which it has issued neither.
C1_TerminalUnlessEarlyReturn ==
    ProcessReturned =>
        IF EarlyReturn
        THEN TerminalStateWrites = {} /\ TerminalStatusCalls = {}
        ELSE TerminalStateWrites # {} /\ TerminalStatusCalls # {}

\* The analyzer failed with a bad-input error and Process returned after
\* the two writes.
C1_Witness ==
    /\ ProcessReturned
    /\ werr.kind = "BadInput"
    /\ TerminalStateWrites # {} /\ TerminalStatusCalls # {}

-----------------------------------------------------------------------------
(* C2 *)

\* C2: within one invocation at most one processed/* record is put and at
\* most one terminal commit status is set; no state write follows the
\* terminal record, no state or status write follows the terminal status.
C2_AtMostOneTerminal ==
    /\ Cardinality(TerminalStateWrites) <= 1
    /\ Cardinality(TerminalStatusCalls) <= 1
    /\ \A i \in TerminalStateWrites : \A j \in DOMAIN log :
            j > i => log[j].op # "UpdateState"
    /\ \A i \in TerminalStatusCalls : \A j \in DOMAIN log :
            j > i => log[j].op \notin {"UpdateState", "SetCommitStatus"}

\* The record went sent_to_queue -> processing -> processed/*, the status
\* pending -> terminal, and the handler has returned.
C2_Witness ==
    /\ handlerRet.done
    /\ Cardinality(TerminalStateWrites) = 1
    /\ Cardinality(TerminalStatusCalls) = 1
    /\ \E i \in DOMAIN log : log[i].op = "UpdateState" /\ log[i].status = statusProcessing
    /\ \E i \in DOMAIN log : log[i].op = "SetCommitStatus" /\ log[i].status = StatusPending

-----------------------------------------------------------------------------
(* C3 *)

\* C3: wherever a terminal commit status is set, the terminal state record
\* of the same status was put, and that call had returned, just before.
C3_StateBeforeStatus ==
    \A j \in TerminalStatusCalls :
        /\ j > 1
        /\ IsTerminalStateWrite(log[j - 1])
        /\ log[j - 1].status = "processed/" \o log[j].status

\* Both paths that set a terminal status: after work(), and after a failed
\* provisioning.
C3_Witness ==
    /\ TerminalStatusCalls # {}
    /\ \E j \in TerminalStatusCalls : log[j].at = "setCommitStatus"
    /\ log[Len(log)].status = StatusFailure

-----------------------------------------------------------------------------
(* C4 *)

\* C4: the two writes of processWithGuaranteedGithubStatus are issued on
\* context.Background(), never on a cancelled context, whenever the
\* deadline passed; once the state write is made the status write follows.
C4_FinalizationOnFreshContext ==
    /\ \A i \in FinalizationCalls :
            log[i].ctx = "background" /\ ~log[i].cancelled
    /\ pc = "setCommitStatus" =>
            IsTerminalStateWrite(log[Len(log)]) /\ log[Len(log)].at = "updateAnalysisState"
    /\ pc \in {"deferred", "analyzeReturn", "returned"} =>
            \A i \in FinalizationCalls : IsTerminalStateWrite(log[i]) =>
                /\ i < Len(log)
                /\ IsTerminalStatusCall(log[i + 1])
                /\ log[i + 1].at = "setCommitStatus"

\* The deadline passed while work() ran (the analyzer was called on a
\* cancelled context), and both writes were made and succeeded.
C4_Witness ==
    /\ handlerRet.done
    /\ \E i \in DOMAIN log : log[i].op = "Run" /\ log[i].cancelled
    /\ \E i \in FinalizationCalls : IsTerminalStateWrite(log[i]) /\ log[i].result = "ok"
    /\ \E i \in FinalizationCalls : IsTerminalStatusCall(log[i]) /\ log[i].result = "ok"

-----------------------------------------------------------------------------
(* C5 *)

\* C5, as stated: every terminal state write and every terminal commit
\* status, those of a failed provisioning included, is issued on
\* context.Background() and never on the job context.
C5_EveryTerminalWriteOnFreshContext ==
    \A i \in TerminalStateWrites \cup TerminalStatusCalls :
        log[i].ctx = "background"

-----------------------------------------------------------------------------
(* C6 *)

\* The job of github_go_pr.go is for a closed or merged pull request.
ClosedOrMerged == driver = "github_go_pr" /\ ToUpper(pr) \in {"CLOSED", "MERGED"}

\* C6, as stated: for a closed or merged pull request Process sets pending,
\* then success "Pull Request is already closed" (resp. merged), puts
\* processed/success, never calls the analyzer or the reviewer, returns nil.
C6_ClosedPRShortCircuit ==
    ProcessReturned /\ ClosedOrMerged =>
        /\ procRet.err = NoErr
        /\ \E i, j \in DOMAIN log :
              /\ i < j
              /\ log[i].op = "SetCommitStatus" /\ log[i].status = StatusPending
              /\ log[j].op = "SetCommitStatus" /\ log[j].status = StatusSuccess
              /\ log[j].desc = "Pull Request is already " \o ToLower(pr)
        /\ \E i \in DOMAIN log :
              log[i].op = "UpdateState" /\ log[i].status = "processed/success"
        /\ \A i \in DOMAIN log : log[i].op \notin {"Run", "Report"}

-----------------------------------------------------------------------------
(* C7 *)

\* C7, as stated: for a closed or merged pull request no repository fetch,
\* no provisioning, no patch fetch and no patch store is performed.
C7_NoLaterStageForClosedPR ==
    ClosedOrMerged =>
        \A i \in DOMAIN log :
            log[i].op \notin {"Fetch", "gw.Setup", "goenvbuild",
                              "GetPullRequestPatch", "storePatch"}

-----------------------------------------------------------------------------
(* C8 *)

FetchPRFailedRecoverable ==
    /\ \E i \in DOMAIN log : log[i].op = "GetPullRequest" /\ log[i].result = "err"
    /\ IsRecoverableError(werr)

\* C8: after a recoverable failure of GetPullRequest there is no write to
\* the state store, no commit status (not even pending), and Process and
\* the handler return a non-nil error.
C8_RecoverableFetchPRFailure ==
    FetchPRFailedRecoverable =>
        /\ \A i \in DOMAIN log : log[i].op \notin {"UpdateState", "SetCommitStatus"}
        /\ store.status \in {statusSentToQueue, statusProcessing}
        /\ provider.status = ""
        /\ procRet.done => ~procRet.panic /\ procRet.err.kind # "nil"
        /\ handlerRet.done => handlerRet.err.kind # "nil"

C8_Witness ==
    /\ FetchPRFailedRecoverable
    /\ handlerRet.done
    /\ store.status = statusSentToQueue

-----------------------------------------------------------------------------
(* C9 *)

RunPanicked == \E i \in DOMAIN log : log[i].op = "Run" /\ log[i].result = "panic"

\* C9, as stated: after a panic of the analyzer the job ends with status
\* error "Internal error", the record processed/error with public error
\* "Internal error", and no panic leaves Process.
C9_AnalyzerPanicInternalError ==
    RunPanicked /\ procRet.done =>
        /\ ~procRet.panic
        /\ \E j \in TerminalStatusCalls :
              log[j].status = StatusError /\ log[j].desc = "Internal error"
        /\ \E i \in TerminalStateWrites :
              log[i].status = "processed/error" /\ log[i].pubErr = "Internal error"

\* C9, amended: after a panic of the analyzer no panic leaves Process, and
\* the job ends with status error and record processed/error, description
\* and public error both "golangci-worker panic-ed"; if the text of the
\* panic contains "no go files to analyze" it ends with success and
\* "No Go files to analyze" instead.
C9_AnalyzerPanicWorkerPaniced ==
    RunPanicked /\ procRet.done =>
        LET sentinel == Contains(werr.priv, "no go files to analyze")
            status == IF sentinel THEN "success" ELSE "error"
            desc == IF sentinel THEN "No Go files to analyze"
                    ELSE "golangci-worker panic-ed"
        IN  /\ ~procRet.panic
            /\ \E j \in TerminalStatusCalls :
                  log[j].status = status /\ log[j].desc = desc
            /\ \E i \in TerminalStateWrites :
                  log[i].status = "processed/" \o status /\ log[i].pubErr = desc

C9_Witness ==
    /\ RunPanicked
    /\ handlerRet.done
    /\ \E j \in TerminalStatusCalls :
          log[j].status = StatusError /\ log[j].desc = "golangci-worker panic-ed"

-----------------------------------------------------------------------------
(* C10 *)

Panics == {i \in DOMAIN log : log[i].result = "panic"}

\* The positions of the handler inside work().
WorkPositions == {"prepareRepo", "Run", "Report"}

\* C10, as stated: a panic in any of the stages 1 to 8 becomes an internal
\* error and the finalization (terminal state write, then terminal commit
\* status) still runs.
C10_AnyPanicFinalizes ==
    Panics # {} /\ procRet.done =>
        /\ werr.kind = "Internal"
        /\ \E i \in FinalizationCalls :
              /\ IsTerminalStateWrite(log[i])
              /\ i + 1 \in FinalizationCalls
              /\ IsTerminalStatusCall(log[i + 1])

\* C10, amended: a panic inside work() (clone and dependencies of
\* prepareRepo, Run analyzer, Post review) becomes an internal error and
\* the finalization still runs; a panic in Process outside work() (stages
\* 1 to 6) is not converted: no further stage and no finalization runs,
\* the deferred Clean calls run, Process ends in the panic and
\* analyzeWrappedV2 returns it as an error.
C10_PanicInWorkFinalizes ==
    \A p \in Panics :
        IF log[p].at \in WorkPositions
        THEN /\ ~panicking
             /\ werr.kind = "Internal" /\ werr.desc = "golangci-worker panic-ed"
             /\ procRet.done =>
                   /\ ~procRet.panic
                   /\ \E i \in FinalizationCalls :
                         /\ i > p
                         /\ IsTerminalStateWrite(log[i])
                         /\ i + 1 \in FinalizationCalls
                         /\ IsTerminalStatusCall(log[i + 1])
        ELSE /\ panicking
             /\ FinalizationCalls = {}
             /\ \A j \in DOMAIN log : j > p => log[j].op \in {"gw.Clean", "exec.Clean"}
             /\ procRet.done => procRet.panic
             /\ handlerRet.done => handlerRet.err = Errorf("panic recovered")

\* The reviewer panicked, work() recovered, and both writes followed.
C10_Witness ==
    /\ handlerRet.done
    /\ \E p \in Panics : log[p].op = "Report"
    /\ TerminalStateWrites # {} /\ TerminalStatusCalls # {}

-----------------------------------------------------------------------------
(* C11 *)

\* Setup of the provisioner returned an error.
SetupFailed ==
    /\ werr.kind = "plain"
    /\ \E w \in {"", "failed to fetch repo: ", "goenvbuild failed: ",
                 "goenvbuild internal error: ",
                 "failed to unmarshal goenvbuild result json: "},
          t \in SetupErrTexts \cup {UnmarshalErrText} : werr.desc = w \o t

\* The calls of the stages after the provisioning.
LaterStageOps ==
    {"GetPullRequestPatch", "storePatch", "GetState", "prepareRepo", "Run", "Report"}

\* C11: when Setup fails, under either provisioner, Process writes the
\* record processed/error with the redacted failure message, sets the commit
\* status error, runs no later stage (no patch fetch, analyzer or review)
\* and returns nil.
C11_SetupFailureIsTerminal ==
    (driver = "github_go_pr" /\ SetupFailed /\ procRet.done) =>
        /\ ~procRet.panic
        /\ procRet.err = NoErr
        /\ \E i \in TerminalStateWrites :
              /\ log[i].status = "processed/error"
              /\ \E w \in {"", "failed to fetch repo: ", "goenvbuild failed: ",
                           "goenvbuild internal error: ",
                           "failed to unmarshal goenvbuild result json: "},
                    t \in {"exit status 1 ", "bad credentials {hidden}",
                           "unexpected end of JSON input"} :
                    log[i].pubErr = "failed to setup workspace: " \o w \o t
        /\ \E i \in TerminalStatusCalls : log[i].status = StatusError
        /\ \A i \in DOMAIN log : log[i].op \notin LaterStageOps

-----------------------------------------------------------------------------
(* C12 *)

\* GetPullRequest or GetPullRequestPatch returned an error (kept in werr).
FetchFailed ==
    \E i \in DOMAIN log :
        log[i].op \in {"GetPullRequest", "GetPullRequestPatch"} /\ log[i].result = "err"

\* C12: when GetPullRequest or GetPullRequestPatch fails, what the queue
\* sees tells the two classes apart: for a recoverable error the handler
\* returns an error (retry); for a non-recoverable error Process returns
\* the adapter's error unchanged and the queue is not told to retry, that
\* is, the handler does not return an error.
C12_QueueSeesTheErrorClass ==
    (FetchFailed /\ handlerRet.done) =>
        IF IsRecoverableError(werr)
        THEN handlerRet.err.kind # "nil"
        ELSE procRet.err = werr /\ handlerRet.err.kind = "nil"

-----------------------------------------------------------------------------
(* C13 *)

\* The state write and the status call of the finalization.
FinalStateWrites ==
    {i \in FinalizationCalls : log[i].op = "UpdateState"}

FinalStatusCalls ==
    {i \in FinalizationCalls : log[i].op = "SetCommitStatus"}

\* C13: when work() returns an IgnoredError, the terminal state and the
\* commit status use the status and the description the error carries, no
\* public error is set, and Process returns nil if the error is not
\* recoverable and the error itself if it is.
C13_IgnoredErrorOutcome ==
    (werr.kind = "Ignored" /\ procRet.done) =>
        /\ ~procRet.panic
        /\ \E i \in FinalStateWrites :
              /\ log[i].status = "processed/" \o werr.status
              /\ log[i].pubErr = ""
        /\ \E i \in FinalStatusCalls :
              /\ log[i].status = werr.status
              /\ log[i].desc = werr.desc
        /\ IF werr.rec
           THEN procRet.err = werr /\ procRet.err.kind # "nil"
           ELSE procRet.err = NoErr

\* The analyzer returned a recoverable IgnoredError with status error and
\* the handler has returned.
C13_Witness ==
    /\ handlerRet.done
    /\ werr = IgnoredError(StatusError, "can't build", TRUE)
    /\ \E i \in FinalStatusCalls : log[i].desc = "can't build"
    /\ procRet.err.kind = "Ignored"

-----------------------------------------------------------------------------
(* C14 *)

NoGoFiles == werr.kind = "Internal" /\ Contains(werr.priv, noGoFilesToAnalyzeErr)

\* C14: when work() returns an InternalError whose private description
\* contains "no go files to analyze", the commit status is success with the
\* description "No Go files to analyze", the state record is
\* processed/success and Process returns nil.
C14_NoGoFilesIsSuccess ==
    (NoGoFiles /\ procRet.done) =>
        /\ ~procRet.panic
        /\ \E i \in FinalStatusCalls :
              /\ log[i].status = "success"
              /\ log[i].desc = "No Go files to analyze"
        /\ \E i \in FinalStateWrites : log[i].status = "processed/success"
        /\ procRet.err = NoErr

\* The analyzer returned (did not panic with) the no-go-files error, both
\* writes succeeded and the handler has returned nil.
C14_Witness ==
    /\ handlerRet.done /\ handlerRet.err = NoErr
    /\ NoGoFiles
    /\ \E i \in DOMAIN log : log[i].op = "Run" /\ log[i].result = "err"
    /\ store.status = "processed/success"
    /\ provider.desc = "No Go files to analyze"

-----------------------------------------------------------------------------
(* C15 *)

\* work() has returned to processWithGuaranteedGithubStatus.
WorkReturned == FinalizationCalls # {}

ReportFailed == \E i \in DOMAIN log : log[i].op = "Report" /\ log[i].result = "err"

\* C15: an InternalError without the no-go-files text gives status error
\* with its public description as description and as public error; an
\* error of no known kind gives status error with "Internal error" as
\* both; in both cases Process returns the error; a failure of the review
\* poster is such an InternalError with a message safe for the user.
C15_InternalAndUnknownErrors ==
    (WorkReturned /\ procRet.done) =>
        /\ (werr.kind = "Internal" /\ ~NoGoFiles) =>
              /\ \E i \in FinalStatusCalls :
                    log[i].status = "error" /\ log[i].desc = werr.desc
              /\ \E i \in FinalStateWrites :
                    log[i].status = "processed/error" /\ log[i].pubErr = werr.desc
              /\ ~procRet.panic /\ procRet.err = werr
        /\ (werr.kind \notin {"nil", "Ignored", "Internal", "BadInput"}) =>
              /\ \E i \in FinalStatusCalls :
                    log[i].status = "error" /\ log[i].desc = "Internal error"
              /\ \E i \in FinalStateWrites :
                    log[i].status = "processed/error" /\ log[i].pubErr = "Internal error"
              /\ ~procRet.panic /\ procRet.err = werr /\ werr.kind # "nil"
        /\ ReportFailed =>
              /\ werr.kind = "Internal"
              /\ werr.desc = "can't send pull request comments to github"

\* The review poster failed and the job ended with its message.
C15_Witness ==
    /\ handlerRet.done
    /\ ReportFailed
    /\ procRet.err.kind = "Internal"
    /\ provider.desc = "can't send pull request comments to github"
    /\ store.pubErr = "can't send pull request comments to github"

\* The analyzer failed with an error of no known kind.
UnknownErrorCase ==
    /\ handlerRet.done
    /\ werr = Errorf("context deadline exceeded")
    /\ provider.desc = "Internal error"

-----------------------------------------------------------------------------
(* C16 *)

\* C16: a BadInputError gives the commit status error with the fixed
\* description "can't analyze"; the public error of the state record is
\* the public description of the error after redaction with the secret
\* map; Process returns nil.
C16_BadInputOutcome ==
    (werr.kind = "BadInput" /\ procRet.done) =>
        /\ ~procRet.panic
        /\ \E i \in FinalStatusCalls :
              log[i].status = "error" /\ log[i].desc = "can't analyze"
        /\ \E i \in FinalStateWrites :
              /\ log[i].status = "processed/error"
              /\ log[i].pubErr = escapeErrorText(werr.desc, buildSecrets)
              /\ log[i].pubErr = "can't read config in {hidden}"
        /\ procRet.err = NoErr

\* The analyzer rejected the configuration, naming the token in its text.
C16_Witness ==
    /\ handlerRet.done /\ handlerRet.err = NoErr
    /\ werr = BadInputError("can't read config in " \o GithubAccessToken)
    /\ store.pubErr = "can't read config in {hidden}"
    /\ provider.desc = "can't analyze"

-----------------------------------------------------------------------------
(* C17 *)

\* The review poster was called and succeeded.
Reported == {i \in DOMAIN log : log[i].op = "Report" /\ log[i].result = "ok"}

\* The description of the commit status for n issues, as the claim lists it.
IssuesFoundText(n) ==
    CASE n = 0 -> "No issues found!"
      [] n = 1 -> "1 issue found"
      [] OTHER -> ToString(n) \o " issues found"

\* C17: when the analyzer and the review poster both succeed with N issues,
\* the poster is called with exactly the N issues of the analyzer, at the
\* head SHA of the pull request; the terminal status is success "No issues
\* found!" for N = 0, failure "1 issue found" for N = 1 and failure "N
\* issues found" for N > 1; the state record is processed/<status> with N
\* reported issues; Process returns nil.
C17_SuccessPathOutcome ==
    \A i \in Reported :
        LET n == log[i].issues
            st == IF n = 0 THEN "success" ELSE "failure"
        IN  /\ \E r \in 1..(i - 1) :
                  log[r].op = "Run" /\ log[r].result = "ok" /\ log[r].issues = n
            /\ log[i].ref = HeadSHA
            /\ procRet.done =>
                  /\ ~procRet.panic
                  /\ \E j \in FinalStatusCalls :
                        /\ log[j].status = st
                        /\ log[j].desc = IssuesFoundText(n)
                        /\ log[j].ref = HeadSHA
                  /\ \E j \in FinalStateWrites :
                        /\ log[j].status = "processed/" \o st
                        /\ log[j].issues = n
                  /\ procRet.err = NoErr

\* One issue was found and reported; the record and the status show it.
C17_Witness ==
    /\ handlerRet.done /\ handlerRet.err = NoErr
    /\ \E i \in Reported : log[i].issues = 1
    /\ store.status = "processed/failure" /\ store.issues = 1 /\ store.pubErr = ""
    /\ provider.status = "failure" /\ provider.desc = "1 issue found"

-----------------------------------------------------------------------------
(* C18 *)

StatusCalls == {i \in DOMAIN log : log[i].op = "SetCommitStatus"}

\* C18: in every SetCommitStatus call the details URL is non-empty only if
\* the status is success, failure or error; every pending call carries the
\* empty URL; every terminal call carries
\* <WEB_ROOT>/r/github.com/<owner>/<name>/pulls/<pr>.
C18_DetailsURLOnlyOnTerminal ==
    \A i \in StatusCalls :
        /\ log[i].url # "" => log[i].status \in {"success", "failure", "error"}
        /\ log[i].status = "pending" => log[i].url = ""
        /\ log[i].status \in {"success", "failure", "error"} =>
              log[i].url = "https://golangci.com/r/github.com/owner/name/pulls/1"

\* A pending call without URL was followed by a terminal call with the URL.
C18_Witness ==
    /\ handlerRet.done
    /\ \E i, j \in StatusCalls :
          /\ i < j
          /\ log[i].status = "pending" /\ log[i].url = ""
          /\ log[j].status = "failure" /\ log[j].url # ""
    /\ provider.url = "https://golangci.com/r/github.com/owner/name/pulls/1"

-----------------------------------------------------------------------------
(* C19 *)

\* C19: both queue handlers (analyze and analyzeV2) are panic-safe: a panic
\* anywhere beneath them, in Process outside work() included, never leaves
\* the handler as a panic, and the handler returns a non-nil error.
C19_AnyPanicBecomesError ==
    /\ ~handlerRet.panic
    /\ (handlerRet.done /\ Panics # {}) => handlerRet.err.kind # "nil"

\* C19, amended: no panic beneath the two handlers leaves them as a panic.
\* A panic in Process outside work() is recovered by the handler and
\* returned as a non-nil error; a panic inside work() is recovered there,
\* and the handler returns a non-nil error unless the text of the panic
\* contains "no go files to analyze", in which case it returns nil.
C19_PanicSafeHandlers ==
    /\ ~handlerRet.panic
    /\ handlerRet.done =>
          \A p \in Panics :
              IF log[p].at \in WorkPositions
              THEN (handlerRet.err.kind = "nil") <=> NoGoFiles
              ELSE handlerRet.err = Errorf("panic recovered")

\* The handler of the task "analyze" returned the panic of storePatch.
C19_Witness ==
    /\ task = "analyze"
    /\ handlerRet.done /\ handlerRet.err.kind # "nil"
    /\ procRet.panic
    /\ \E p \in Panics : log[p].op = "storePatch"

-----------------------------------------------------------------------------
(* C20 (under SpecExec) *)

\* C20: deriving an executor does not change the parent: after any
\* sequence of WithEnv and WithWorkDir calls on the base and on its
\* derivatives, every executor that existed before a call, the base
\* included, has the working directory and the environment it had; the new
\* executor differs from its parent in the one thing the call set, so that
\* base.WithEnv(k, v).WithEnv(k, v2) has k = v2.
C20_DerivationLeavesParent ==
    /\ execs[1] = BaseExec
    /\ \A i \in DOMAIN log :
          LET d == log[i]
              parent == d.before[d.recv]
              new == execs[Len(d.before) + 1]
          IN  /\ \A j \in DOMAIN d.before : execs[j] = d.before[j]
              /\ d.op = "WithEnv" =>
                    /\ new.env[d.key] = d.val
                    /\ \A k \in EnvNames \ {d.key} : new.env[k] = parent.env[k]
                    /\ new.wd = parent.wd
              /\ d.op = "WithWorkDir" =>
                    /\ new.wd = d.val
                    /\ new.env = parent.env

\* base.WithEnv("REPO", "1").WithEnv("REPO", v2) exists: it has v2, the
\* first derivative still has "1" and the base still has nothing set.
C20_Witness ==
    /\ Len(execs) >= 3
    /\ log[1].op = "WithEnv" /\ log[1].recv = 1
    /\ log[1].key = "REPO" /\ log[1].val = "1"
    /\ log[2].op = "WithEnv" /\ log[2].recv = 2
    /\ log[2].key = "REPO" /\ log[2].val = "github.com/owner/name"
    /\ execs[3].env["REPO"] = "github.com/owner/name"
    /\ execs[2].env["REPO"] = "1"
    /\ execs[1].env["REPO"] = ""

-----------------------------------------------------------------------------
(* C21 *)

\* The Clean calls on executors.
Cleans == {i \in DOMAIN log : log[i].op = "exec.Clean"}

\* C21: on every exit path of Process (normal return, early error return,
\* provisioning failure, panic) Clean has been called on the sandbox
\* executor the job was built with: its directory is the sandbox root, not
\* the working directory of a derived executor.
C21_SandboxCleanedOnEveryExit ==
    procRet.done =>
        /\ \E i \in Cleans : log[i].ref = BaseExec.wd
        /\ \A i \in Cleans : log[i].ref = "/tmp/golangci.gopr"
        /\ execs[1].wd = "/tmp/golangci.gopr"

\* Process ended in a panic after the provisioner had replaced g.exec by
\* an executor with another working directory, and the sandbox was cleaned.
C21_Witness ==
    /\ procRet.done /\ procRet.panic
    /\ newWorkspaceInstaller
    /\ execs[g.exec].wd = "/goapp"
    /\ \E i \in Cleans : log[i].ref = "/tmp/golangci.gopr"

-----------------------------------------------------------------------------
(* C22 *)

\* The text holds the sensitive value k.
Mentions(text, k) == \E p \in Prefixes \cup {""} : text = p \o k

\* The keys of the secret map that name a value.
SecretKeys == DOMAIN buildSecrets \ {""}

\* The texts a call hands to the state store or to the hosting provider.
PublishedTexts(e) ==
    {e.pubErr, e.desc} \cup {e.warnings[i].text : i \in DOMAIN e.warnings}

\* C22: no public warning, public error or commit-status description handed
\* to the state store or to the hosting provider holds a key of the secret
\* map.
C22_NoSecretPublished ==
    \A i \in DOMAIN log :
        log[i].op \in {"UpdateState", "SetCommitStatus"}
            => \A t \in PublishedTexts(log[i]), k \in SecretKeys : ~Mentions(t, k)

-----------------------------------------------------------------------------
(* C23 *)

\* The entry has the form NAME=VALUE.
IsNameValue(kv) == \E i \in DOMAIN kv : kv[i] = "="

\* The value of a NAME=VALUE entry: what follows the first "=".
EnvValue(kv) ==
    LET i == CHOOSE i \in DOMAIN kv : kv[i] = "=" /\ \A j \in 1..(i - 1) : kv[j] # "="
    IN  SubSeq(kv, i + 1, Len(kv))

\* The keys buildSecrets enters by name, whatever the environment is.
NamedSecrets == {GithubAccessToken, analysisGUID, Gopath}

\* C23: the secret map holds the value of every NAME=VALUE entry of the
\* environment that is at least six characters long, the values with an "="
\* in them included, and the environment adds no value shorter than that.
C23_EnvValuesInSecrets ==
    secrets # <<>>
        => \A i \in DOMAIN environ :
              IsNameValue(environ[i])
                  => LET v == EnvValue(environ[i])
                     IN  /\ Len(v) >= MinSecretLen => Join(v) \in DOMAIN secrets
                         /\ Len(v) < MinSecretLen
                                => Join(v) \notin DOMAIN secrets \ NamedSecrets

-----------------------------------------------------------------------------
(* C24 *)

\* The stages of Process in the order of section 4.1.
SpecStages ==
    <<"Fetch PR", "Set pending status", "Provision workspace", "Fetch patch",
      "Store patch", "Refresh queue timing", "Run analyzer", "Post review",
      "Finalize", "Deferred cleanup">>

\* The stages in the order of the driver of part_000.
Part000Stages ==
    <<"Fetch PR", "Provision workspace", "Fetch patch", "Store patch",
      "Set pending status", "Refresh queue timing", "Run analyzer", "Post review",
      "Finalize", "Deferred cleanup">>

\* The stage a call belongs to.
StageOf(e) ==
    CASE e.op = "GetPullRequest" -> "Fetch PR"
      [] e.op = "SetCommitStatus" ->
            IF e.status = StatusPending THEN "Set pending status" ELSE "Finalize"
      [] e.op \in {"gw.Setup", "goenvbuild"} -> "Provision workspace"
      [] e.op = "Fetch" ->
            IF newWorkspaceInstaller THEN "Provision workspace" ELSE "Run analyzer"
      [] e.op = "GetPullRequestPatch" -> "Fetch patch"
      [] e.op = "storePatch" -> "Store patch"
      [] e.op = "GetState" -> "Refresh queue timing"
      [] e.op = "UpdateState" ->
            IF e.status = statusProcessing THEN "Refresh queue timing" ELSE "Finalize"
      [] e.op \in {"FetchDeps", "Run"} -> "Run analyzer"
      [] e.op = "Report" -> "Post review"
      [] e.op \in {"gw.Clean", "exec.Clean"} -> "Deferred cleanup"

\* The place of a stage in an order of the stages.
Place(stages, stage) == CHOOSE n \in DOMAIN stages : stages[n] = stage

\* No call of a stage comes after a call of a later stage.
InOrder(stages) ==
    \A i, j \in DOMAIN log :
        i < j => Place(stages, StageOf(log[i])) <= Place(stages, StageOf(log[j]))

\* The pending status could not be set.
PendingFailed(e) ==
    e.op = "SetCommitStatus" /\ e.status = StatusPending /\ e.result = "err"

\* A failure to set the pending status does not end the run: the stage after
\* it is the next one.
PendingFailureGoesOn ==
    (log # <<>> /\ PendingFailed(log[Len(log)])) => pc = NextStage("SetPending")

-----------------------------------------------------------------------------
(* C25 *)

\* The record was read with the status sent_to_queue.
ReadAsQueued(e) ==
    e.op = "GetState" /\ e.result = "ok" /\ e.status = statusSentToQueue

\* The put of the record with the status processing.
IsProcessingWrite(e) == e.op = "UpdateState" /\ e.status = statusProcessing

\* The "In Queue" timings recorded so far.
InQueueTimings == {n \in DOMAIN g.timings : g.timings[n] = "In Queue"}

\* The read or the write of the refresh failed.
RefreshFailed(e) ==
    (e.op = "GetState" \/ IsProcessingWrite(e)) /\ e.result = "err"

\* What the refresh has done, as the calls and the timings show it.
RefreshOutcome ==
    IF \E i \in DOMAIN log : ReadAsQueued(log[i])
    THEN LET i == CHOOSE i \in DOMAIN log : ReadAsQueued(log[i])
         IN  pc # "UpdateProcessing"
                => /\ Cardinality(InQueueTimings) = 1
                   /\ log[i + 1].op = "UpdateState"
                   /\ log[i + 1].result # "panic" => IsProcessingWrite(log[i + 1])
                   /\ Cardinality({j \in DOMAIN log : log[j].op = "UpdateState"
                                                       /\ log[j].at = "UpdateProcessing"}) = 1
    ELSE /\ InQueueTimings = {}
         /\ \A j \in DOMAIN log : ~IsProcessingWrite(log[j])
         /\ \A j \in DOMAIN log : log[j].op = "UpdateState" => log[j].at # "UpdateProcessing"

\* The positions of work() and of the finalization after it.
AfterRefresh == {"work", "prepareRepo", "Run", "updateAnalysisState"}

\* A failed read or write of the refresh is followed by work(), and the run
\* ends with the terminal record and the terminal status.
RefreshFailureGoesOn ==
    /\ (log # <<>> /\ RefreshFailed(log[Len(log)])) => pc \in AfterRefresh
    /\ (procRet.done /\ \E i \in DOMAIN log : RefreshFailed(log[i]))
          => TerminalStateWrites # {} /\ TerminalStatusCalls # {}

\* The write of the refresh changes the status of the stored record, to
\* processing, and nothing else of it.
RefreshWrite ==
    (pc = "UpdateProcessing" /\ store' # store)
        => store' = [store EXCEPT !.status = statusProcessing]

\* C25: when GetState succeeds with the status sent_to_queue, one "In Queue"
\* timing is recorded and the record is written back with the status
\* processing and every other field as read; with any other status nothing
\* is written and no timing recorded; when GetState or UpdateState fails
\* the run goes on to the analyzer and to the finalization.
C25_RefreshQueueTiming ==
    /\ [](RefreshOutcome /\ RefreshFailureGoesOn)
    /\ [][RefreshWrite]_vars

\* The record read as sent_to_queue was written back as processing with its
\* creation time, and the run went on from there.
C25_Witness ==
    /\ \E i \in DOMAIN log : ReadAsQueued(log[i])
    /\ \E i \in DOMAIN log : IsProcessingWrite(log[i]) /\ log[i].result = "ok"
    /\ store = [NoState EXCEPT !.status = statusProcessing, !.createdAt = CreatedAt]
    /\ Cardinality(InQueueTimings) = 1
    /\ pc = "Run"

-----------------------------------------------------------------------------
(* C26 *)

\* The calls Go2.Setup has made: the fetch of the repo and the run of
\* goenvbuild, whose stdout the call carries.
SetupCalls(op) == {i \in DOMAIN log : log[i].op = op /\ log[i].at = "Setup"}

\* Go2.Setup has returned.
Go2SetupReturned ==
    /\ newWorkspaceInstaller
    /\ pc # "Setup"
    /\ \E i \in SetupCalls("Fetch") : log[i].result # "panic"

\* One of the four failures of Go2.Setup happened.
Go2SetupFailure ==
    \/ \E i \in SetupCalls("Fetch") : log[i].result = "err"
    \/ \E i \in SetupCalls("goenvbuild") :
          \/ log[i].result = "err"
          \/ log[i].ref = "not json"
    \/ envbuildResult.Error # ""

\* C26: Go2.Setup returns an error and no executor when the fetch of the
\* repo fails, goenvbuild fails, its stdout is no JSON, or the error field
\* of the answer is not empty.  Otherwise it returns the log of the answer
\* and an executor derived from the base executor, with the working
\* directory of the answer and every entry of its environment, and the base
\* executor is as it was.
C26_Go2Setup ==
    Go2SetupReturned =>
        IF Go2SetupFailure
        THEN /\ SetupFailed
             /\ g.exec = NewGithubGoPR.exec
             /\ g.resLog = NilLog
        ELSE /\ g.exec # NewGithubGoPR.exec
             /\ execs[g.exec].wd = envbuildResult.WorkDir
             /\ \A k \in DOMAIN envbuildResult.Environment :
                   execs[g.exec].env[k] = envbuildResult.Environment[k]
             /\ \A k \in EnvNames \ DOMAIN envbuildResult.Environment :
                   execs[g.exec].env[k] = BaseExec.env[k]
             /\ g.resLog = envbuildResult.Log
             /\ execs[NewGithubGoPR.exec] = BaseExec

\* goenvbuild answered with a working directory, an environment and a log,
\* and the driver took the executor and the log.
C26_Witness ==
    /\ Go2SetupReturned
    /\ ~Go2SetupFailure
    /\ execs[g.exec].wd = "/goapp/src/github.com/owner/name"
    /\ execs[g.exec].env["GOPATH"] = "/goapp"
    /\ ~g.resLog.nil

-----------------------------------------------------------------------------
(* C27 *)

\* The steps of the log of the provisioning whose error is not empty, each
\* as <<group, step>>.
FailedSteps ==
    {p \in UNION {{<<gi, si>> : si \in DOMAIN g.resLog.groups[gi].steps} :
                     gi \in DOMAIN g.resLog.groups} :
        g.resLog.groups[p[1]].steps[p[2]].error # ""}

\* Step p comes before step q in the log.
Before(p, q) == p[1] < q[1] \/ (p[1] = q[1] /\ p[2] < q[2])

\* The n-th failed step of the log.
NthFailedStep(n) ==
    CHOOSE p \in FailedSteps :
        Cardinality({q \in FailedSteps : Before(q, p)}) = n - 1

\* ws holds one warning for every failed step of the log and nothing else,
\* in the order of the log, under the name of the group and with the
\* redacted text.
WarnsOfFailedSteps(ws) ==
    /\ Len(ws) = Cardinality(FailedSteps)
    /\ \A n \in DOMAIN ws :
          LET p == NthFailedStep(n)
              s == g.resLog.groups[p[1]].steps[p[2]]
          IN  /\ ws[n].stage = g.resLog.groups[p[1]].name
              /\ ws[n].text = escapeErrorText(s.desc \o " error: " \o s.error,
                                              buildSecrets)
              /\ \A k \in SecretKeys : ~Mentions(ws[n].text, k)

\* The goenvbuild provisioner succeeded.
Provisioned == newWorkspaceInstaller /\ g.exec # NewGithubGoPR.exec

\* prepareRepo has returned.
RepoPrepared == pc = "Run" \/ \E i \in DOMAIN log : log[i].op = "Run"

\* C27 as stated: with the goenvbuild provisioner, every job whose
\* provisioning succeeded ends with a terminal record that holds one warning
\* for every failed step of the log, in the order of the log, whatever
\* happened after the provisioning.
C27_StepWarningsAlways ==
    (Provisioned /\ procRet.done)
        => /\ TerminalStateWrites # {}
           /\ \A i \in TerminalStateWrites : WarnsOfFailedSteps(log[i].warnings)

\* C27, amended: with the goenvbuild provisioner, once prepareRepo has
\* returned the driver has published one warning for every failed step of
\* the log and no other, in the order of the log, under the name of the
\* group and redacted; the run then ends with a terminal record, and every
\* terminal record holds these warnings, whatever the analyzer and the
\* review do.
C27_StepWarningsOncePrepared ==
    (Provisioned /\ RepoPrepared)
        => /\ WarnsOfFailedSteps(g.warnings)
           /\ procRet.done => TerminalStateWrites # {}
           /\ \A i \in TerminalStateWrites : log[i].warnings = g.warnings

\* The log has two failed steps and one that succeeded, the analyzer failed
\* after prepareRepo, and the terminal record holds the two warnings.
C27_Witness ==
    /\ Provisioned
    /\ RepoPrepared
    /\ Cardinality(FailedSteps) = 2
    /\ \E i \in DOMAIN log : log[i].op = "Run" /\ log[i].result = "err"
    /\ \E i \in TerminalStateWrites :
          /\ log[i].result = "ok"
          /\ Len(log[i].warnings) = 2
          /\ log[i].warnings[1] = [stage |-> "prepare",
                                   text |-> "go mod download error: bad credentials {hidden}"]

-----------------------------------------------------------------------------
(* C28 *)

\* C28: whenever a terminal commit status S is visible on the provider, the
\* state store holds the record processed/S, also when the put of the
\* terminal record failed.
C28_VisibleStatusHasRecord ==
    provider.status \in TerminalStatuses
        => store.status = "processed/" \o provider.status

-----------------------------------------------------------------------------
(* C29 *)

\* The place of a status in sent_to_queue -> processing -> processed/*.
StatusRank(st) ==
    CASE st = statusSentToQueue -> 1
      [] st = statusProcessing -> 2
      [] st \in ProcessedStatuses -> 3

\* No write moves the stored status backward.
NeverBackward == StatusRank(store'.status) >= StatusRank(store.status)

\* The put of the status processing follows a read of sent_to_queue.
ProcessingOnlyAfterQueued ==
    \A i \in DOMAIN log :
        IsProcessingWrite(log[i]) => i > 1 /\ ReadAsQueued(log[i - 1])

\* C29: over any sequence of Process invocations for one analysis id, the
\* redeliveries after a returned error included, the stored status never
\* moves backward in sent_to_queue -> processing -> processed/*: the driver
\* puts processing only when it has just read sent_to_queue and never
\* replaces a processed/* record by an earlier status.
C29_StatusNeverMovesBack ==
    /\ [][NeverBackward]_vars
    /\ []ProcessingOnlyAfterQueued

\* A redelivered job found its record processed, wrote nothing in the
\* refresh and went on to the analyzer.
C29_Witness ==
    /\ redelivered
    /\ store.status \in ProcessedStatuses
    /\ \E i \in DOMAIN log :
          /\ log[i].op = "GetState"
          /\ log[i].result = "ok"
          /\ log[i].status \in ProcessedStatuses
    /\ \A i \in DOMAIN log : log[i].op # "UpdateState"
    /\ pc = "Run"

====
